---- MODULE Spec2Model ----
(***************************************************************************)
(* Control-protocol multiplexer (queryHandler) of the Go agent SDK, with   *)
(* the parts of the subprocess transport it talks to.                      *)
(*                                                                         *)
(* Goroutines modelled: the transport's read goroutine (ReadMessages), the *)
(* reader pump (routeMessages), one goroutine per sendControlRequest call, *)
(* one per inbound control_request (handleControlRequest), the consumer of *)
(* the data channel and a caller of Close.  Every action is one step of    *)
(* one goroutine between two synchronisation points (channel operation,    *)
(* mutex acquisition).  Around it: the client (ClaudeSDKClient) with its   *)
(* connection, its control operations and its response stream, the        *)
(* permission handler and the tool server (SdkMcpServer).                  *)
(***************************************************************************)
EXTENDS Integers, Sequences, FiniteSets, TLC

\* ---------------------------------------------------------------- bounds
\* Number of sendControlRequest calls made over the life of the handler.
MaxRequests == 2
\* Number of inbound control_request frames the agent sends.
MaxInbound == 1
\* Number of frames the agent writes to its stdout (data plane).
MaxFrames == 3
\* Number of control_response frames the agent writes (control plane).
MaxResponses == 2
\* Configured capacity of the data channel (MessageChannelBufferSize).
BufferSize == 2
\* Largest configured MaxBufferSize, in bytes.
MaxBufferBytes == 3
\* Largest configured ScannerInitialBufferSize, in bytes.
MaxInitialBytes == 2
\* Longest physical line the agent writes, in bytes (newline not counted).
MaxLineBytes == 4
\* Number of physical lines the agent writes.
MaxLines == 3

\* ------------------------------------------------------ program constants
\* Capacity of the transport's message channel: make(chan ..., 10).
MsgChCap == 10
\* Capacity of a one-shot result channel: make(chan controlResult, 1).
ResultChanCap == 1
\* Capacity of the data channel when none is configured.
DefaultBufferSize == 100

RequestIds == 1..MaxRequests
InboundIds == 1..MaxInbound

VARIABLES
    \* --- transport (SubprocessCLITransport)
    tpc,            \* read goroutine: "idle" | "reading" | "ended"
    msgCh,          \* buffered channel of parsed frames
    errCh,          \* "open" | "err" (closed, one error buffered) | "closed"
    ready,          \* t.ready
    exited,         \* t.cmd.ProcessState != nil (cmd.Wait returned)
    exitError,      \* t.exitError != nil
    cmd,            \* t.cmd: "set" after Connect, "nil" after Close
    stdinPipe,      \* frames written to the child's stdin
    stdin,          \* t.stdin: "open" | "nil"
    childGone,      \* the child process has exited (its end of the pipes is closed)
    \* --- multiplexer (queryHandler)
    isStreamingMode,
    pendingControlResponses,   \* keys of the map
    resultChan,     \* per request id: contents of its one-shot channel
    requestCounter,
    messageChan,    \* data channel (buffered)
    messageChanClosed,
    errorChan,      \* "empty" | "err"
    cancelled,      \* the reader's context is done (cancelFunc called)
    rpc,            \* reader pump: "created" | "select" | "sendResult" | "sendData" | "done"
    rmsg,           \* frame the reader pump holds
    rchan,          \* request id whose result channel the reader pump holds
    \* --- goroutines of callers
    reqPc,          \* per sendControlRequest call
    outcome,        \* per call: what was returned to the caller
    hPc,            \* per inbound control_request handler
    hRes,           \* per handler: subtype of the control_response it builds
    hSub,           \* per handler: subtype of the inbound request
    hCb,            \* per handler: how the callback ended
    cpc,            \* caller of Close
    ctxDone,        \* per sendControlRequest call: the caller's context is cancelled
    \* --- framing loop of the read goroutine, line by line
    fpc,            \* "unset" | "scanning" | "ended"
    maxBufferSize,  \* t.maxBufferSize
    initialSize,    \* capacity of the buffer handed to the scanner
    jsonBuffer,     \* jsonBuffer.Len()
    fErr,           \* error sent on errCh: "none" | "decode" | "read"
    fEmitted,       \* number of messages sent on msgCh
    fLines,         \* number of physical lines read
    fMsgBytes,      \* bytes of the message in progress that have arrived
    \* --- client (ClaudeSDKClient) and the one-shot entry (processQuery)
    entry,          \* who runs the connection: "none" | "client" | "query"
    connPc,         \* position in ConnectWithPrompt / processQuery
    connRet,        \* what it returned: "none" | "nil" | "configError" | "newError" | "connectError" | "initError"
    cCancel,        \* c.cancel != nil
    cCtxDone,       \* c.ctx is cancelled
    cTransport,     \* c.transport: "nil" | "set"
    prompt,         \* kind of the prompt: "unset" | "nil" | "string" | "channel"
    optCanUseTool,  \* options.CanUseTool != nil
    optToolName,    \* options.PermissionPromptToolName: "nil" | "user"
    effToolName,    \* the same field in the options handed on: "unset" | "nil" | "user" | "stdio"
    tConnects,      \* number of calls of transport.Connect
    discRet,        \* what Disconnect returned on a client without queryHandler
    infoRet,        \* what GetServerInfo returned: "none" | "nil" | "info"
    initPc,         \* position in queryHandler.Initialize
    initReq,        \* request id of the initialize request
    initRet,        \* what Initialize returned: "none" | "nil" | "result" | "error"
    initResult,     \* q.initResult: "unset" | "set"
    initPayload,    \* request id of the response stored in q.initResult, 0 for none
    \* --- client: ReceiveMessages and ReceiveResponse
    mPc,            \* goroutine of ReceiveMessages: "idle" | "select" | "send" | "done"
    mMsg,           \* message it holds
    inner,          \* channel returned by ReceiveMessages
    innerClosed,
    rrPc,           \* goroutine of ReceiveResponse: "idle" | "range" | "send" | "done"
    rrMsg,          \* message it holds
    respCh,         \* channel returned by ReceiveResponse
    respClosed,
    recvCtxDone,    \* receiveCtx is cancelled by the goroutine of ReceiveResponse
    uCtxDone,       \* the context given to ReceiveResponse is cancelled
    decoded,        \* messages parseMessage has decoded, in order
    mEnd,           \* why ReceiveMessages returned: "none" | "ctx" | "error" | "parse" | "closed"
    yielded,        \* messages the consumer has taken from respCh, in order
    \* --- one can_use_tool request, with its payloads
    permPc,         \* handleCanUseTool: "idle" | "run" | "convert" | "done"
    permRegistered, \* q.canUseTool != nil
    permInput,      \* request["input"] as a map: "null" when absent or no object
    permResult,     \* what the callback returned
    permResponse,   \* what handleCanUseTool returned
    permSubtype,    \* subtype of the control_response built from it
    \* --- tool server (SdkMcpServer): one JSON-RPC request
    mcpPc,          \* HandleRequest: "idle" | "dispatch" | "handled" | "done"
    mcpRequest,     \* the request: method, id, tool name
    mcpCtxDone,     \* the context passed to HandleRequest is cancelled
    mcpHandler,     \* how the tool's handler behaves
    mcpReturn,      \* what the handler returned: payload and error
    mcpResponse,    \* what HandleRequest returned
    \* --- multiplexer: StreamInput
    siPc,           \* goroutine of StreamInput: "idle" | "select" | "inWrite" | "done"
    siLeft,         \* messages left in the prompt channel before it is closed
    siRet,          \* what StreamInput returned: "none" | "nil" | "ctxErr" | "writeErr"
    siCtxDone,      \* the context given to StreamInput is cancelled
    \* --- multiplexer: the hook registry
    hookCallbacks,  \* q.hookCallbacks: pairs <<callback id, hook>>
    nextCallbackID, \* q.nextCallbackID
    hkPc,           \* Initialize, up to its request: "idle" | "register" | "sent"
    hkLeft,         \* configured hooks this call of Initialize has yet to register
    hkReads,        \* callback ids looked up by handlers, with what was found
    \* --- multiplexer: further calls of Start
    extraReaders,   \* read goroutines spawned by calls of Start after the first
    extraPumps,     \* reader pumps spawned by calls of Start after the first
    \* --- multiplexer: construction
    bufferSize,     \* the bufferSize argument of newQueryHandler
    \* --- transport: Connect and Close called on it directly
    tcPhase,        \* "connected" since a Connect that started the child, "new" | "closed" otherwise
    tcRet,          \* what the last call of Connect returned: "none" | "nil" | "error"
    tcCalls,        \* number of calls of Connect
    \* --- transport: the read goroutine at its send
    tmsg,           \* parsed message the read goroutine holds for msgCh
    \* --- client: wrapReceiveResponseWithError
    wPc,            \* its goroutine: "idle" | "range" | "done"
    wrapErr,        \* its error channel: "empty" | "ctxErr"
    \* --- observation
    wire,           \* types of the frames, in their order of arrival from the transport
    consumed,       \* data frames taken from the data channel, in order
    removed         \* per request id: number of deletions from pending

vars == <<tpc, msgCh, errCh, ready, exited, exitError, cmd, stdinPipe, stdin, childGone,
          isStreamingMode, pendingControlResponses, resultChan, requestCounter,
          messageChan, messageChanClosed, errorChan, cancelled, rpc, rmsg, rchan,
          reqPc, outcome, hPc, hRes, hSub, hCb, cpc, ctxDone,
          fpc, maxBufferSize, initialSize, jsonBuffer, fErr, fEmitted, fLines, fMsgBytes,
          entry, connPc, connRet, cCancel, cCtxDone, cTransport, prompt, optCanUseTool,
          optToolName, effToolName, tConnects, discRet, infoRet,
          initPc, initReq, initRet, initResult, initPayload,
          mPc, mMsg, inner, innerClosed, rrPc, rrMsg, respCh, respClosed,
          recvCtxDone, uCtxDone, decoded, yielded, mEnd,
          permPc, permRegistered, permInput, permResult, permResponse, permSubtype,
          mcpPc, mcpRequest, mcpCtxDone, mcpHandler, mcpReturn, mcpResponse,
          siPc, siLeft, siRet, siCtxDone,
          hookCallbacks, nextCallbackID, hkPc, hkLeft, hkReads,
          extraReaders, extraPumps, bufferSize, tcPhase, tcRet, tcCalls, tmsg, wPc, wrapErr,
          wire, consumed, removed>>

tvars == <<tpc, msgCh, errCh, wire>>
wvars == <<ready, exited, exitError, cmd, stdinPipe, stdin, childGone>>
rvars == <<messageChan, messageChanClosed, errorChan, rpc, rmsg, rchan>>
qvars == <<pendingControlResponses, requestCounter, reqPc, outcome, removed>>
hvars == <<hPc, hRes, hSub, hCb>>
cvars == <<cpc, cancelled>>
fvars == <<fpc, maxBufferSize, initialSize, jsonBuffer, fErr, fEmitted, fLines, fMsgBytes>>
kvars == <<entry, connPc, connRet, cCancel, cCtxDone, cTransport, prompt, optCanUseTool,
           optToolName, effToolName, tConnects, discRet, infoRet>>
ivars == <<initPc, initReq, initRet, initResult, initPayload>>
svars == <<mPc, mMsg, inner, innerClosed, rrPc, rrMsg, respCh, respClosed,
           recvCtxDone, uCtxDone, decoded, yielded, mEnd>>
pvars == <<permPc, permRegistered, permInput, permResult, permResponse, permSubtype>>
mvars == <<mcpPc, mcpRequest, mcpCtxDone, mcpHandler, mcpReturn, mcpResponse>>
nvars == <<siPc, siLeft, siRet, siCtxDone>>
gvars == <<hookCallbacks, nextCallbackID, hkPc, hkLeft, hkReads>>
uvars == <<extraReaders, extraPumps>>
bvars == <<bufferSize>>
yvars == <<tcPhase, tcRet, tcCalls>>
zvars == <<tmsg>>
xvars == <<wPc, wrapErr>>
lvars == <<nvars, gvars, uvars, bvars, yvars, zvars, xvars>>
evars == <<isStreamingMode, ctxDone, fvars, kvars, ivars, svars, pvars, mvars, lvars>>

\* ---------------------------------------------------------------- frames
NoFrame == [type |-> "none", id |-> 0, subtype |-> "none"]
DataFrame(n) == [type |-> "data", id |-> n, subtype |-> "none"]
ControlResponse(r, st) == [type |-> "control_response", id |-> r, subtype |-> st]
ControlRequest(r) == [type |-> "control_request", id |-> r, subtype |-> "none"]
InboundRequest(h, sub) == [type |-> "control_request", id |-> h, subtype |-> sub]
ControlCancel == [type |-> "control_cancel_request", id |-> 0, subtype |-> "none"]

\* Variant of IsData that knows no control_cancel_request case.
IsDataOrCancel(f) == f.type \notin {"control_response", "control_request"}

\* The default case of the switch on the frame type: a regular message.
IsData(f) == f.type \notin {"control_response", "control_request", "control_cancel_request"}

\* Number of frames of one type in a sequence of frame types.
NumOf(s, kind) == Cardinality({i \in 1..Len(s) : s[i] = kind})

\* Request ids whose control_request frame the agent has seen on its stdin.
SeenByAgent == {f.id : f \in {g \in stdinPipe : g.type = "control_request"}}

\* ------------------------------------------------------------------ Init
Init ==
    /\ tpc = "idle"
    /\ msgCh = <<>>
    /\ errCh = "open"
    /\ ready = TRUE
    /\ exited = FALSE
    /\ exitError = FALSE
    /\ cmd = "set"
    /\ stdinPipe = {}
    /\ stdin = "open"
    /\ childGone = FALSE
    /\ isStreamingMode \in BOOLEAN
    /\ pendingControlResponses = {}
    /\ resultChan = [r \in RequestIds |-> <<>>]
    /\ requestCounter = 0
    /\ messageChan = <<>>
    /\ messageChanClosed = FALSE
    /\ errorChan = "empty"
    /\ cancelled = FALSE
    /\ rpc = "created"
    /\ rmsg = NoFrame
    /\ rchan = 0
    /\ reqPc = [r \in RequestIds |-> "idle"]
    /\ outcome = [r \in RequestIds |-> <<>>]
    /\ hPc = [h \in InboundIds |-> "idle"]
    /\ hRes = [h \in InboundIds |-> "none"]
    /\ hSub = [h \in InboundIds |-> "none"]
    /\ hCb = [h \in InboundIds |-> "none"]
    /\ cpc = "idle"
    /\ ctxDone = [r \in RequestIds |-> FALSE]
    /\ fpc = "unset"
    /\ maxBufferSize = 0
    /\ initialSize = 0
    /\ jsonBuffer = 0
    /\ fErr = "none"
    /\ fEmitted = 0
    /\ fLines = 0
    /\ fMsgBytes = 0
    /\ entry = "none"
    /\ connPc = "idle"
    /\ connRet = "none"
    /\ cCancel = FALSE
    /\ cCtxDone = FALSE
    /\ cTransport = "nil"
    /\ prompt = "unset"
    /\ optCanUseTool = FALSE
    /\ optToolName = "nil"
    /\ effToolName = "unset"
    /\ tConnects = 0
    /\ discRet = "none"
    /\ infoRet = "none"
    /\ initPc = "idle"
    /\ initReq = 0
    /\ initRet = "none"
    /\ initResult = "unset"
    /\ initPayload = 0
    /\ mPc = "idle"
    /\ mMsg = NoFrame
    /\ inner = <<>>
    /\ innerClosed = FALSE
    /\ rrPc = "idle"
    /\ rrMsg = NoFrame
    /\ respCh = <<>>
    /\ respClosed = FALSE
    /\ recvCtxDone = FALSE
    /\ uCtxDone = FALSE
    /\ decoded = <<>>
    /\ yielded = <<>>
    /\ mEnd = "none"
    /\ wPc = "idle"
    /\ wrapErr = "empty"
    /\ permPc = "idle"
    /\ permRegistered = FALSE
    /\ permInput = "null"
    /\ permResult = [kind |-> "none", updatedInput |-> "null", updatedPermissions |-> "null",
                     message |-> "", interrupt |-> FALSE]
    /\ permResponse = [err |-> "none", behavior |-> "absent", updatedInput |-> "absent",
                       updatedPermissions |-> "absent", message |-> "absent",
                       interrupt |-> "absent"]
    /\ permSubtype = "none"
    /\ mcpPc = "idle"
    /\ mcpRequest = [method |-> "none", id |-> "absent", tool |-> "none"]
    /\ mcpCtxDone = FALSE
    /\ mcpHandler = [observesCtx |-> FALSE, result |-> "null", err |-> "none"]
    /\ mcpReturn = [result |-> "null", err |-> "none"]
    /\ mcpResponse = [id |-> "absent", kind |-> "none", code |-> "none", isError |-> FALSE,
                      content |-> <<>>, result |-> "none"]
    /\ hookCallbacks = {}
    /\ nextCallbackID = 0
    /\ hkPc = "idle"
    /\ hkLeft = 0
    /\ hkReads = {}
    /\ bufferSize = BufferSize
    /\ tmsg = NoFrame
    /\ tcPhase = "connected"
    /\ tcRet = "none"
    /\ tcCalls = 0
    /\ extraReaders = 0
    /\ extraPumps = 0
    /\ siPc = "idle"
    /\ siLeft = 0
    /\ siRet = "none"
    /\ siCtxDone = FALSE
    /\ wire = <<>>
    /\ consumed = <<>>
    /\ removed = [r \in RequestIds |-> 0]

\* ------------------------------------------- transport: ReadMessages goroutine
\* Frames the agent may write next: a data frame (numbered in order of
\* arrival), a control_response for a request id it has read from its stdin
\* (possibly one it has answered before), an inbound control_request, or a
\* control_cancel_request.
DataFrames == {DataFrame(NumOf(wire, "data") + 1)}
\* A result message, and a regular frame that parseMessage rejects.
ResultFrame(n) == [type |-> "data", id |-> n, subtype |-> "result"]
BadFrame(n) == [type |-> "data", id |-> n, subtype |-> "bad"]
ResultFrames == {ResultFrame(NumOf(wire, "data") + 1)}
BadFrames == {BadFrame(NumOf(wire, "data") + 1)}
ResponseFrames(subtypes) == {ControlResponse(r, st) : r \in SeenByAgent, st \in subtypes}
InboundFrames(subtypes) ==
    {InboundRequest(h, sub) : h \in {NumOf(wire, "control_request") + 1} \cap InboundIds,
                              sub \in subtypes}
CancelFrames == {ControlCancel}

\* One line scanned and parsed: msgCh <- data (blocks while msgCh is full).
\* The agent writes one of `frames`, and at most `limit` frames in all.
TransportEmit(frames, limit) ==
    /\ tpc = "reading"
    /\ Len(wire) < limit
    /\ Len(msgCh) < MsgChCap
    /\ \E f \in frames :
        /\ msgCh' = Append(msgCh, f)
        /\ wire' = Append(wire, f.type)
    /\ UNCHANGED <<tpc, errCh>>
    /\ UNCHANGED <<wvars, rvars, qvars, hvars, cvars, resultChan, evars, consumed>>

\* The scanner reaches end of stream without error; cmd.Wait() returns.  A
\* nonzero exit status is stored in exitError and sent on errCh.  The deferred
\* closes of errCh and msgCh run on return.
TransportEOF ==
    /\ tpc = "reading"
    /\ childGone
    /\ tpc' = "ended"
    /\ exited' = TRUE
    /\ \E nonzero \in BOOLEAN :
        IF nonzero
        THEN exitError' = TRUE /\ errCh' = "err"
        ELSE exitError' = exitError /\ errCh' = "closed"
    /\ UNCHANGED <<msgCh, wire, ready, cmd, stdinPipe, stdin, childGone>>
    /\ UNCHANGED <<rvars, qvars, hvars, cvars, resultChan, evars, consumed>>

\* A read error of the scanner, or the accumulated JSON exceeding
\* maxBufferSize: the error is sent on errCh and the goroutine returns.
TransportError ==
    /\ tpc = "reading"
    /\ tpc' = "ended"
    /\ errCh' = "err"
    /\ UNCHANGED <<msgCh, wire>>
    /\ UNCHANGED <<wvars, rvars, qvars, hvars, cvars, resultChan, evars, consumed>>

\* The child process exits of its own accord.
ChildExit ==
    /\ ~childGone
    /\ childGone' = TRUE
    /\ UNCHANGED <<ready, exited, exitError, cmd, stdinPipe, stdin>>
    /\ UNCHANGED <<tvars, rvars, qvars, hvars, cvars, resultChan, evars, consumed>>

\* --------------------------- transport: the read goroutine, step by step
\* Frames the agent has written when the consumer has fallen behind: enough
\* to fill the data channel and the message channel, and one frame each for
\* the reader pump and the read goroutine to hold.
MaxBacklog == MsgChCap + BufferSize + 2

nonRead == <<rvars, qvars, hvars, resultChan, isStreamingMode, ctxDone, fvars, ivars,
             svars, pvars, mvars, nvars, gvars, uvars, bvars, yvars, xvars, consumed>>

\* The context given to Connect and to ReadMessages is cancelled (by
\* Disconnect, or by its owner).  The context of the reader pump derives from
\* it, and exec.CommandContext kills the child.
CancelCallerCtx ==
    /\ rpc # "created"
    /\ ~cCtxDone
    /\ cCtxDone' = TRUE
    /\ cancelled' = TRUE
    /\ childGone' = TRUE
    /\ UNCHANGED <<entry, connPc, connRet, cCancel, cTransport, prompt, optCanUseTool,
                   optToolName, effToolName, tConnects, discRet, infoRet>>
    /\ UNCHANGED <<ready, exited, exitError, cmd, stdinPipe, stdin, cpc, tvars, tmsg, nonRead>>

\* scanner.Scan() yields a line that parses: on a cancelled context the
\* goroutine returns (the deferred closes run); otherwise it goes on to
\* msgCh <- data.  The pipe can hold lines after the child has gone.
ReadScan(frames, limit) ==
    /\ tpc = "reading"
    /\ Len(wire) < limit
    /\ \E f \in frames :
        /\ wire' = Append(wire, f.type)
        /\ IF cCtxDone
           THEN tpc' = "ended" /\ errCh' = "closed" /\ UNCHANGED tmsg
           ELSE tpc' = "sending" /\ tmsg' = f /\ UNCHANGED errCh
    /\ UNCHANGED <<msgCh, wvars, cvars, kvars, nonRead>>

\* msgCh <- data: a plain send, which blocks while msgCh is full.
ReadSend ==
    /\ tpc = "sending"
    /\ Len(msgCh) < MsgChCap
    /\ msgCh' = Append(msgCh, tmsg)
    /\ tmsg' = NoFrame
    /\ tpc' = "reading"
    /\ UNCHANGED <<errCh, wire, wvars, cvars, kvars, nonRead>>

\* The scanner reaches the end of the stream after Close has set t.cmd to
\* nil: t.cmd.Wait() is called on a nil *exec.Cmd.  (t.cmd is read without
\* t.mu; TransportEOF is the outcome in which the read comes first.)
TransportEOFFault ==
    /\ tpc = "reading"
    /\ childGone
    /\ cmd = "nil"
    /\ ~cCtxDone
    /\ tpc' = "fault"
    /\ UNCHANGED <<msgCh, errCh, wire, tmsg, wvars, cvars, kvars, nonRead>>

\* ------------------------------- transport: the framing loop, line by line
\* Everything but the framing variables.
nonFramer == <<tvars, wvars, rvars, qvars, hvars, cvars, resultChan, isStreamingMode,
               ctxDone, kvars, ivars, svars, pvars, mvars, lvars, consumed>>

\* NewSubprocessCLITransport and the head of the read goroutine: the
\* configured MaxBufferSize and ScannerInitialBufferSize;
\* scanner.Buffer(make([]byte, 0, initialSize), t.maxBufferSize).
FramerConfigure ==
    /\ fpc = "unset"
    /\ \E b \in 1..MaxBufferBytes, i \in 1..MaxInitialBytes :
        /\ maxBufferSize' = b
        /\ initialSize' = i
    /\ fpc' = "scanning"
    /\ UNCHANGED <<jsonBuffer, fErr, fEmitted, fLines, fMsgBytes, nonFramer>>

\* Room of the scanner for one line with its newline: its buffer starts with
\* the capacity it was given and grows up to the maximum token size.
ScannerRoom == IF initialSize >= maxBufferSize THEN initialSize ELSE maxBufferSize

\* scanner.Scan() yields the line: the line and its newline fit the buffer.
\* Otherwise Scan returns false and scanner.Err() is bufio.ErrTooLong.
ScanOK(len) == len + 1 <= ScannerRoom

\* jsonBuffer.Len() > t.maxBufferSize
OverLimit(n) == n > maxBufferSize

\* One physical line of `len` bytes arrives; `complete` says whether the
\* accumulated text parses as JSON once the line is appended.
\*   line too long for the scanner: errCh <- CLIConnectionError, return;
\*   accumulated text over the limit: errCh <- CLIJSONDecodeError, return;
\*   text parses: jsonBuffer.Reset(), msgCh <- data;
\*   otherwise the text is kept and the loop goes on.
FramerLine ==
    /\ fpc = "scanning"
    /\ fLines < MaxLines
    /\ \E len \in 1..MaxLineBytes, complete \in BOOLEAN :
        /\ fLines' = fLines + 1
        /\ IF ~ScanOK(len)
           THEN /\ fErr' = "read"
                /\ fpc' = "ended"
                /\ fMsgBytes' = jsonBuffer + len
                /\ UNCHANGED <<jsonBuffer, fEmitted>>
           ELSE IF OverLimit(jsonBuffer + len)
           THEN /\ jsonBuffer' = jsonBuffer + len
                /\ fMsgBytes' = jsonBuffer + len
                /\ fErr' = "decode"
                /\ fpc' = "ended"
                /\ UNCHANGED fEmitted
           ELSE IF complete
           THEN /\ jsonBuffer' = 0
                /\ fMsgBytes' = 0
                /\ fEmitted' = fEmitted + 1
                /\ UNCHANGED <<fErr, fpc>>
           ELSE /\ jsonBuffer' = jsonBuffer + len
                /\ fMsgBytes' = jsonBuffer + len
                /\ UNCHANGED <<fErr, fpc, fEmitted>>
    /\ UNCHANGED <<maxBufferSize, initialSize, nonFramer>>

\* End of the stream: scanner.Scan() returns false with no error.
FramerEOF ==
    /\ fpc = "scanning"
    /\ fpc' = "ended"
    /\ UNCHANGED <<maxBufferSize, initialSize, jsonBuffer, fErr, fEmitted, fLines,
                   fMsgBytes, nonFramer>>

NextFramer ==
    \/ FramerConfigure
    \/ FramerLine
    \/ FramerEOF

FramerSpec == Init /\ [][NextFramer]_vars

\* ------------------------------------------------- multiplexer: reader pump
\* Values of MessageChannelBufferSize that the options can carry.
ConfiguredSizes == (0 - 1)..BufferSize

\* newQueryHandler: a bufferSize of zero or less is replaced by the default;
\* the result is the capacity of q.messageChan.
ChanCapacity(n) == IF n <= 0 THEN DefaultBufferSize ELSE n

\* cap(q.messageChan)
Capacity == ChanCapacity(bufferSize)

\* newQueryHandler with the configured buffer size.
NewQueryHandler(n) ==
    /\ rpc = "created"
    /\ tpc = "idle"
    /\ bufferSize' = n
    /\ UNCHANGED <<tvars, wvars, rvars, qvars, hvars, cvars, resultChan, isStreamingMode,
                   ctxDone, fvars, kvars, ivars, svars, pvars, mvars, nvars, gvars, uvars,
                   yvars, zvars, xvars, consumed>>

\* queryHandler.Start: ReadMessages starts the read goroutine, cancelFunc is
\* set, routeMessages is spawned.
Start ==
    /\ rpc = "created"
    /\ tpc = "idle"
    /\ tpc' = "reading"
    /\ rpc' = "select"
    /\ UNCHANGED <<msgCh, errCh, wire, messageChan, messageChanClosed, errorChan, rmsg, rchan>>
    /\ UNCHANGED <<wvars, qvars, hvars, cvars, resultChan, evars, consumed>>

\* Calls of Start on one handler after the first, at most.
MaxRestarts == 2

\* queryHandler.Start called on a handler that has been started before (it
\* may have been closed since): the function has no condition, so
\* ReadMessages starts another read goroutine on the same stdout, cancelFunc
\* is replaced and another routeMessages is spawned; nil is returned.
StartAgain ==
    /\ rpc # "created"
    /\ extraReaders < MaxRestarts
    /\ extraReaders' = extraReaders + 1
    /\ extraPumps' = extraPumps + 1
    /\ UNCHANGED <<tvars, wvars, rvars, qvars, hvars, cvars, resultChan, isStreamingMode,
                   ctxDone, fvars, kvars, ivars, svars, pvars, mvars, nvars, gvars, bvars, yvars, zvars, xvars, consumed>>

\* Reader pumps spawned for this handler so far.
PumpsSpawned == (IF rpc = "created" THEN 0 ELSE 1) + extraPumps

\* Variant of Lookup that ignores the key and yields any waiting channel.
LookupAnyPending(requestID) == pendingControlResponses

\* q.pendingControlResponses[requestID]: the channels found under the key.
Lookup(requestID) ==
    IF requestID \in pendingControlResponses THEN {requestID} ELSE {}

\* Variant of Enqueue that puts the frame at the head of the buffer.
EnqueueFirst(ch, msg) == <<msg>> \o ch

\* ch <- msg on a buffered channel.
Enqueue(ch, msg) == Append(ch, msg)

\* routeMessages returns: the deferred close(q.errorChan) and
\* close(q.messageChan) run.
ReaderReturns ==
    /\ rpc' = "done"
    /\ messageChanClosed' = TRUE
    /\ rmsg' = NoFrame
    /\ rchan' = 0

\* select: case <-ctx.Done()
ReaderCtxDone ==
    /\ rpc = "select"
    /\ cancelled
    /\ ReaderReturns
    /\ UNCHANGED <<messageChan, errorChan>>
    /\ UNCHANGED <<tvars, wvars, qvars, hvars, cvars, resultChan, evars, consumed>>

\* select: case err := <-errCh (a value, or nil from the closed channel)
ReaderErrCh ==
    /\ rpc = "select"
    /\ errCh # "open"
    /\ IF errCh = "err"
       THEN errorChan' = "err" /\ errCh' = "closed" /\ ReaderReturns
       ELSE errorChan' = errorChan /\ errCh' = errCh /\ ReaderReturns
    /\ UNCHANGED <<tpc, msgCh, wire, messageChan>>
    /\ UNCHANGED <<wvars, qvars, hvars, cvars, resultChan, evars, consumed>>

\* select: case msg, ok := <-msgCh with ok false
ReaderMsgChClosed ==
    /\ rpc = "select"
    /\ msgCh = <<>>
    /\ tpc = "ended"
    /\ ReaderReturns
    /\ UNCHANGED <<messageChan, errorChan>>
    /\ UNCHANGED <<tvars, wvars, qvars, hvars, cvars, resultChan, evars, consumed>>

\* Variant of SpawnedPc in which the handler is called in the pump itself,
\* which then waits for it.
InlinePc == "handling"

\* go q.handleControlRequest(ctx, msg): the pump goes back to its select.
SpawnedPc == "select"

\* select: case msg, ok := <-msgCh with ok true, and the switch on msg type.
\* control_response: handleControlResponse looks the channel up under q.mu
\* and returns when there is none; the send is the next step.
\* control_request: go q.handleControlRequest.  control_cancel_request:
\* nothing.  Anything else (the default case) is held for the send on
\* messageChan.
ReaderRecv ==
    /\ rpc = "select"
    /\ msgCh # <<>>
    /\ LET msg == Head(msgCh) IN
        /\ msgCh' = Tail(msgCh)
        /\ CASE IsData(msg) ->
                  /\ rpc' = "sendData"
                  /\ rmsg' = msg
                  /\ UNCHANGED <<rchan, hvars>>
             [] msg.type = "control_response" ->
                  /\ \/ /\ Lookup(msg.id) = {}
                        /\ UNCHANGED <<rpc, rmsg, rchan>>
                     \/ \E c \in Lookup(msg.id) :
                        /\ rpc' = "sendResult"
                        /\ rmsg' = msg
                        /\ rchan' = c
                  /\ UNCHANGED hvars
             [] msg.type = "control_request" ->
                  /\ hPc' = [hPc EXCEPT ![msg.id] = "run"]
                  /\ hSub' = [hSub EXCEPT ![msg.id] = msg.subtype]
                  /\ rpc' = SpawnedPc
                  /\ UNCHANGED <<rmsg, rchan, hRes, hCb>>
             [] msg.type = "control_cancel_request" ->
                  UNCHANGED <<rpc, rmsg, rchan, hvars>>
    /\ UNCHANGED <<tpc, errCh, wire, messageChan, messageChanClosed, errorChan>>
    /\ UNCHANGED <<wvars, qvars, cvars, resultChan, evars, consumed>>

\* handleControlResponse: resultChan <- controlResult{...}; blocks while the
\* one-slot channel is full.
ReaderSendResult ==
    /\ rpc = "sendResult"
    /\ Len(resultChan[rchan]) < ResultChanCap
    /\ resultChan' = [resultChan EXCEPT
                        ![rchan] = Append(@, [kind |-> rmsg.subtype, id |-> rmsg.id])]
    /\ rpc' = "select"
    /\ rmsg' = NoFrame
    /\ rchan' = 0
    /\ UNCHANGED <<messageChan, messageChanClosed, errorChan>>
    /\ UNCHANGED <<tvars, wvars, qvars, hvars, cvars, evars, consumed>>

\* Variant of ReaderSendData that drops the frame when the channel is full.
ReaderSendDataOrDrop ==
    /\ rpc = "sendData"
    /\ messageChan' = IF Len(messageChan) < Capacity THEN Enqueue(messageChan, rmsg)
                      ELSE messageChan
    /\ rpc' = "select"
    /\ rmsg' = NoFrame
    /\ UNCHANGED <<messageChanClosed, errorChan, rchan>>
    /\ UNCHANGED <<tvars, wvars, qvars, hvars, cvars, resultChan, evars, consumed>>

\* inner select: case q.messageChan <- msg (blocks while the channel is full)
ReaderSendData ==
    /\ rpc = "sendData"
    /\ Len(messageChan) < Capacity
    /\ messageChan' = Enqueue(messageChan, rmsg)
    /\ rpc' = "select"
    /\ rmsg' = NoFrame
    /\ UNCHANGED <<messageChanClosed, errorChan, rchan>>
    /\ UNCHANGED <<tvars, wvars, qvars, hvars, cvars, resultChan, evars, consumed>>

\* inner select: case <-ctx.Done()
ReaderSendDataCtxDone ==
    /\ rpc = "sendData"
    /\ cancelled
    /\ ReaderReturns
    /\ UNCHANGED <<messageChan, errorChan>>
    /\ UNCHANGED <<tvars, wvars, qvars, hvars, cvars, resultChan, evars, consumed>>

\* ------------------------------------------------------------- consumer
\* A receive from q.ReceiveMessages() that yields a frame.
Consume ==
    /\ messageChan # <<>>
    /\ consumed' = Append(consumed, Head(messageChan))
    /\ messageChan' = Tail(messageChan)
    /\ UNCHANGED <<messageChanClosed, errorChan, rpc, rmsg, rchan>>
    /\ UNCHANGED <<tvars, wvars, qvars, hvars, cvars, resultChan, evars>>

\* ------------------------------------------- transport: Write under t.mu.RLock
\* Goroutines between t.mu.RLock() and the deferred RUnlock of Write, past
\* the readiness checks: those inside t.stdin.Write.
InsideWrite ==
    {<<"request", r>> : r \in {x \in RequestIds : reqPc[x] = "inWrite"}}
    \cup {<<"handler", h>> : h \in {x \in InboundIds : hPc[x] = "inWrite"}}
    \cup (IF siPc = "inWrite" THEN {<<"input", 0>>} ELSE {})

\* t.mu.RLock(): a read lock is granted whenever no goroutine holds the write
\* lock, whatever the number of read locks held.  The write lock is held only
\* inside CloseTransport, which is one step.
RLockGranted == TRUE

\* Variant of WriteAllowed without its first check (t.ready, t.stdin).
WriteAllowedUnlessExited == ~exited /\ ~exitError

\* The checks of Write before it touches the pipe: t.ready and t.stdin, the
\* process state, the stored exit error.
WriteAllowed == ready /\ stdin # "nil" /\ ~exited /\ ~exitError

\* --------------------------------------- multiplexer: sendControlRequest
Result(kind, id) == [kind |-> kind, id |-> id]

\* Entry of sendControlRequest.  Not in streaming mode: an error is returned
\* at once.  Otherwise, under q.mu: the counter is incremented, the request
\* id is built from it, a one-slot channel is made and stored in pending; the
\* deferred delete is registered.
SendControlRequest(r) ==
    /\ rpc # "created"
    /\ reqPc[r] = "idle"
    /\ \A x \in RequestIds : x < r => reqPc[x] # "idle"
    /\ IF ~isStreamingMode
       THEN /\ outcome' = [outcome EXCEPT ![r] = Append(@, Result("notStreaming", 0))]
            /\ reqPc' = [reqPc EXCEPT ![r] = "done"]
            /\ UNCHANGED <<requestCounter, pendingControlResponses, resultChan>>
       ELSE /\ r = requestCounter + 1
            /\ requestCounter' = requestCounter + 1
            /\ pendingControlResponses' = pendingControlResponses \cup {r}
            /\ resultChan' = [resultChan EXCEPT ![r] = <<>>]
            /\ reqPc' = [reqPc EXCEPT ![r] = "write"]
            /\ UNCHANGED outcome
    /\ UNCHANGED removed
    /\ UNCHANGED <<tvars, wvars, rvars, hvars, cvars, evars, consumed>>

\* q.transport.Write: read lock and checks.  A failed check returns a
\* connection error ("not ready", "terminated process", "exited with error")
\* to sendControlRequest, which returns it.
RequestWriteEnter(r) ==
    /\ reqPc[r] = "write"
    /\ RLockGranted
    /\ IF WriteAllowed
       THEN /\ reqPc' = [reqPc EXCEPT ![r] = "inWrite"]
            /\ UNCHANGED outcome
       ELSE /\ reqPc' = [reqPc EXCEPT ![r] = "return"]
            /\ outcome' = [outcome EXCEPT ![r] = Append(@, Result("notReady", r))]
    /\ UNCHANGED <<pendingControlResponses, requestCounter, removed>>
    /\ UNCHANGED <<tvars, wvars, rvars, hvars, cvars, resultChan, evars, consumed>>

\* t.stdin.Write returns: with an error when the child has closed its end of
\* the pipe, and then the transport marks itself not ready.
RequestWriteExit(r) ==
    /\ reqPc[r] = "inWrite"
    /\  IF ~childGone
        THEN /\ stdinPipe' = stdinPipe \cup {ControlRequest(r)}
             /\ reqPc' = [reqPc EXCEPT ![r] = "wait"]
             /\ UNCHANGED <<ready, exitError, outcome>>
        ELSE /\ ready' = FALSE
             /\ exitError' = TRUE
             /\ reqPc' = [reqPc EXCEPT ![r] = "return"]
             /\ outcome' = [outcome EXCEPT ![r] = Append(@, Result("writeError", r))]
             /\ UNCHANGED stdinPipe
    /\ UNCHANGED <<exited, cmd, stdin, childGone, pendingControlResponses, requestCounter, removed>>
    /\ UNCHANGED <<tvars, rvars, hvars, cvars, resultChan, evars, consumed>>

\* Variant of AwaitResult that takes the result and goes on waiting.
AwaitResultAgain(r) ==
    /\ reqPc[r] = "wait"
    /\ resultChan[r] # <<>>
    /\ outcome' = [outcome EXCEPT ![r] = Append(@, Head(resultChan[r]))]
    /\ resultChan' = [resultChan EXCEPT ![r] = Tail(@)]
    /\ UNCHANGED <<reqPc, pendingControlResponses, requestCounter, removed>>
    /\ UNCHANGED <<tvars, wvars, rvars, hvars, cvars, evars, consumed>>

\* select: case result := <-resultChan
AwaitResult(r) ==
    /\ reqPc[r] = "wait"
    /\ resultChan[r] # <<>>
    /\ outcome' = [outcome EXCEPT ![r] = Append(@, Head(resultChan[r]))]
    /\ resultChan' = [resultChan EXCEPT ![r] = Tail(@)]
    /\ reqPc' = [reqPc EXCEPT ![r] = "return"]
    /\ UNCHANGED <<pendingControlResponses, requestCounter, removed>>
    /\ UNCHANGED <<tvars, wvars, rvars, hvars, cvars, evars, consumed>>

\* Variant of AwaitTimeout in which the expiry of one deadline releases every
\* waiting caller.
AwaitTimeoutAll(r) ==
    /\ reqPc[r] = "wait"
    /\ outcome' = [x \in RequestIds |->
                      IF reqPc[x] = "wait"
                      THEN Append(outcome[x], Result("timeout", x))
                      ELSE outcome[x]]
    /\ reqPc' = [x \in RequestIds |-> IF reqPc[x] = "wait" THEN "return" ELSE reqPc[x]]
    /\ UNCHANGED <<pendingControlResponses, requestCounter, removed>>
    /\ UNCHANGED <<tvars, wvars, rvars, hvars, cvars, resultChan, evars, consumed>>

\* select: case <-timeoutCtx.Done(): the 60 s deadline has passed or the
\* caller's context is cancelled; the same "control request timeout" error
\* is returned for both.
AwaitTimeout(r) ==
    /\ reqPc[r] = "wait"
    /\ outcome' = [outcome EXCEPT ![r] = Append(@, Result("timeout", r))]
    /\ reqPc' = [reqPc EXCEPT ![r] = "return"]
    /\ UNCHANGED <<pendingControlResponses, requestCounter, removed>>
    /\ UNCHANGED <<tvars, wvars, rvars, hvars, cvars, resultChan, evars, consumed>>

\* Variant of DeferredDelete in which the delete is registered only after the
\* write has succeeded.
DeferredDeleteAfterWrite(r) ==
    /\ reqPc[r] = "return"
    /\ IF outcome[r][1].kind \in {"writeError", "notReady"}
       THEN UNCHANGED <<pendingControlResponses, removed>>
       ELSE /\ pendingControlResponses' = pendingControlResponses \ {r}
            /\ removed' = [removed EXCEPT ![r] = @ + 1]
    /\ reqPc' = [reqPc EXCEPT ![r] = "done"]
    /\ UNCHANGED <<requestCounter, outcome>>
    /\ UNCHANGED <<tvars, wvars, rvars, hvars, cvars, resultChan, evars, consumed>>

\* The deferred function: delete(q.pendingControlResponses, requestID) under
\* q.mu, then sendControlRequest returns to its caller.
DeferredDelete(r) ==
    /\ reqPc[r] = "return"
    /\ pendingControlResponses' = pendingControlResponses \ {r}
    /\ removed' = [removed EXCEPT ![r] = @ + 1]
    /\ reqPc' = [reqPc EXCEPT ![r] = "done"]
    /\ UNCHANGED <<requestCounter, outcome>>
    /\ UNCHANGED <<tvars, wvars, rvars, hvars, cvars, resultChan, evars, consumed>>

\* The caller of sendControlRequest cancels the context it passed, while the
\* call is in progress.  timeoutCtx is derived from that context (line 210),
\* so its Done channel is closed too and the timeout case of the select is
\* ready.
CallerCancel(r) ==
    /\ reqPc[r] \in {"write", "inWrite", "wait"}
    /\ ~ctxDone[r]
    /\ ctxDone' = [ctxDone EXCEPT ![r] = TRUE]
    /\ UNCHANGED <<tvars, wvars, rvars, qvars, hvars, cvars, resultChan, isStreamingMode, fvars,
                   kvars, ivars, svars, pvars, mvars, lvars, consumed>>

\* --------------------------------------- multiplexer: handleControlRequest
\* Subtypes of inbound control requests: the three the switch knows, and any
\* other.
InboundSubtypes == {"can_use_tool", "hook_callback", "mcp_message", "other"}

\* How the user's callback can end.  can_use_tool, hook_callback: it returns
\* a result ("ok"), or there is an error ("fail": the callback returns one,
\* none is registered, the result has an invalid type).  mcp_message: the
\* tool server answers ("ok"), its tool handler returns an error ("fail"), or
\* the request names no server or has no message ("malformed").  Any other
\* subtype runs no callback.
CallbackOutcomes(sub) ==
    CASE sub = "mcp_message" -> {"ok", "fail", "malformed"}
      [] sub \in {"can_use_tool", "hook_callback"} -> {"ok", "fail"}
      [] OTHER -> {"none"}

\* Variant of HandlerResult in which a failed tool handler gives an error
\* response and a failed hook callback a success response.
HandlerResultSwapped(sub, cb) ==
    CASE sub = "can_use_tool" -> IF cb = "ok" THEN "success" ELSE "error"
      [] sub = "hook_callback" -> "success"
      [] sub = "mcp_message" -> IF cb = "ok" THEN "success" ELSE "error"
      [] OTHER -> "error"

\* err of handleControlRequest after the switch, as the subtype of the
\* response.  handleCanUseTool and handleHookCallback return the callback's
\* error.  handleMcpMessage returns an error only for a malformed request: a
\* failure of the tool handler comes back from HandleRequest as a JSON-RPC
\* reply (isError: true), wrapped in mcp_response with a nil error.  The
\* default case is the "unsupported control request subtype" error.
HandlerResult(sub, cb) ==
    CASE sub = "can_use_tool" -> IF cb = "ok" THEN "success" ELSE "error"
      [] sub = "hook_callback" -> IF cb = "ok" THEN "success" ELSE "error"
      [] sub = "mcp_message" -> IF cb = "malformed" THEN "error" ELSE "success"
      [] OTHER -> "error"

\* The dispatch on the subtype: the callback runs and the response is built.
HandlerRun(h) ==
    /\ hPc[h] = "run"
    /\ \E cb \in CallbackOutcomes(hSub[h]) :
        /\ hCb' = [hCb EXCEPT ![h] = cb]
        /\ hRes' = [hRes EXCEPT ![h] = HandlerResult(hSub[h], cb)]
    /\ hPc' = [hPc EXCEPT ![h] = "write"]
    /\ UNCHANGED hSub
    /\ UNCHANGED <<tvars, wvars, rvars, qvars, cvars, resultChan, evars, consumed>>

\* q.transport.Write of the control_response; its error is dropped.
HandlerWriteEnter(h) ==
    /\ hPc[h] = "write"
    /\ RLockGranted
    /\ hPc' = [hPc EXCEPT ![h] = IF WriteAllowed THEN "inWrite" ELSE "done"]
    /\ UNCHANGED <<hRes, hSub, hCb>>
    /\ UNCHANGED <<tvars, wvars, rvars, qvars, cvars, resultChan, evars, consumed>>

\* Variant of HandlerWriteExit in which an error response is not written.
HandlerWriteExitErrorsDropped(h) ==
    /\ hPc[h] = "inWrite"
    /\  IF ~childGone
        THEN /\ stdinPipe' = IF hRes[h] = "error" THEN stdinPipe
                              ELSE stdinPipe \cup {ControlResponse(h, hRes[h])}
             /\ UNCHANGED <<ready, exitError>>
        ELSE /\ ready' = FALSE
             /\ exitError' = TRUE
             /\ UNCHANGED stdinPipe
    /\ hPc' = [hPc EXCEPT ![h] = "done"]
    /\ UNCHANGED <<exited, cmd, stdin, childGone, hRes, hSub, hCb>>
    /\ UNCHANGED <<tvars, rvars, qvars, cvars, resultChan, evars, consumed>>

\* t.stdin.Write of the control_response returns; its error is dropped.
HandlerWriteExit(h) ==
    /\ hPc[h] = "inWrite"
    /\  IF ~childGone
        THEN /\ stdinPipe' = stdinPipe \cup {ControlResponse(h, hRes[h])}
             /\ UNCHANGED <<ready, exitError>>
        ELSE /\ ready' = FALSE
             /\ exitError' = TRUE
             /\ UNCHANGED stdinPipe
    /\ hPc' = [hPc EXCEPT ![h] = "done"]
    /\ UNCHANGED <<exited, cmd, stdin, childGone, hRes, hSub, hCb>>
    /\ UNCHANGED <<tvars, rvars, qvars, cvars, resultChan, evars, consumed>>

\* ------------------------------------------ handler: handleCanUseTool
nonPerm == <<tvars, wvars, rvars, qvars, hvars, cvars, resultChan, isStreamingMode,
             ctxDone, fvars, kvars, ivars, svars, mvars, lvars, consumed>>

\* What a permission callback can return: an error, or a PermissionResult
\* of one of the three types, with or without its optional fields.
NoPermResult ==
    [kind |-> "none", updatedInput |-> "null", updatedPermissions |-> "null",
     message |-> "", interrupt |-> FALSE]
PermResults ==
    {[NoPermResult EXCEPT !.kind = "error"]}
    \cup {[NoPermResult EXCEPT !.kind = "allow", !.updatedInput = u, !.updatedPermissions = p] :
              u \in {"null", "changed"}, p \in {"null", "empty", "rules"}}
    \cup {[NoPermResult EXCEPT !.kind = "deny", !.message = m, !.interrupt = i] :
              m \in {"", "no"}, i \in BOOLEAN}
    \cup {[NoPermResult EXCEPT !.kind = "ask", !.message = m, !.updatedInput = u,
                               !.updatedPermissions = p] :
              m \in {"", "sure?"}, u \in {"null", "changed"}, p \in {"null", "rules"}}

\* The input of the request as handleCanUseTool reads it: the object, or a
\* nil map when the key is missing or is no object.
PermInputs == {"null", "in1", "in2"}

NoPermResponse ==
    [err |-> "none", behavior |-> "absent", updatedInput |-> "absent",
     updatedPermissions |-> "absent", message |-> "absent", interrupt |-> "absent"]

\* Variant of HandleCanUseTool that leaves updatedInput out when the callback
\* gave none.
HandleCanUseToolNoEcho(registered, result, originalInput) ==
    IF ~registered
    THEN [NoPermResponse EXCEPT !.err = "canUseTool callback is not provided"]
    ELSE CASE result.kind = "error" -> [NoPermResponse EXCEPT !.err = "callback"]
           [] result.kind = "allow" ->
                [NoPermResponse EXCEPT
                    !.behavior = "allow",
                    !.updatedInput = IF result.updatedInput # "null"
                                     THEN result.updatedInput ELSE "absent",
                    !.updatedPermissions = IF result.updatedPermissions \notin {"null", "empty"}
                                           THEN result.updatedPermissions ELSE "absent"]
           [] result.kind = "deny" ->
                [NoPermResponse EXCEPT
                    !.behavior = "deny",
                    !.message = result.message,
                    !.interrupt = IF result.interrupt THEN "true" ELSE "absent"]
           [] OTHER -> [NoPermResponse EXCEPT !.err = "invalid permission result type"]

\* handleCanUseTool: the error when no callback is registered, the error of
\* the callback, and then the type switch on its result: a case for
\* PermissionResultAllow, a case for PermissionResultDeny, and the default
\* case, which is the "invalid permission result type" error.
HandleCanUseTool(registered, result, originalInput) ==
    IF ~registered
    THEN [NoPermResponse EXCEPT !.err = "canUseTool callback is not provided"]
    ELSE CASE result.kind = "error" -> [NoPermResponse EXCEPT !.err = "callback"]
           [] result.kind = "allow" ->
                [NoPermResponse EXCEPT
                    !.behavior = "allow",
                    !.updatedInput = IF result.updatedInput # "null"
                                     THEN result.updatedInput ELSE originalInput,
                    !.updatedPermissions = IF result.updatedPermissions \notin {"null", "empty"}
                                           THEN result.updatedPermissions ELSE "absent"]
           [] result.kind = "deny" ->
                [NoPermResponse EXCEPT
                    !.behavior = "deny",
                    !.message = result.message,
                    !.interrupt = IF result.interrupt THEN "true" ELSE "absent"]
           [] OTHER -> [NoPermResponse EXCEPT !.err = "invalid permission result type"]

\* A can_use_tool request arrives and its handler starts.
PermRequest(registered, input) ==
    /\ permPc = "idle"
    /\ permRegistered' = registered
    /\ permInput' = input
    /\ permPc' = "run"
    /\ UNCHANGED <<permResult, permResponse, permSubtype, nonPerm>>

\* q.canUseTool(ctx, toolName, originalInput, permCtx) returns.
PermCallback(result) ==
    /\ permPc = "run"
    /\ permRegistered
    /\ permResult' = result
    /\ permPc' = "convert"
    /\ UNCHANGED <<permRegistered, permInput, permResponse, permSubtype, nonPerm>>

\* handleCanUseTool returns and handleControlRequest builds the response.
PermRespond ==
    /\ \/ permPc = "convert"
       \/ permPc = "run" /\ ~permRegistered
    /\ LET resp == HandleCanUseTool(permRegistered, permResult, permInput)
       IN  /\ permResponse' = resp
           /\ permSubtype' = HandlerResult("can_use_tool",
                                           IF resp.err = "none" THEN "ok" ELSE "fail")
    /\ permPc' = "done"
    /\ UNCHANGED <<permRegistered, permInput, permResult, nonPerm>>

\* ------------------------------------------ tool server: SdkMcpServer
nonMcp == <<tvars, wvars, rvars, qvars, hvars, cvars, resultChan, isStreamingMode,
            ctxDone, fvars, kvars, ivars, svars, pvars, lvars, consumed>>

McpMethods == {"initialize", "tools/list", "tools/call", "notifications/initialized", "other"}

\* Requests: a method, an id (a notification has none), and for tools/call
\* the name of a registered tool or of none.
McpRequests ==
    {[method |-> m, id |-> i, tool |-> "none"] :
        m \in McpMethods \ {"tools/call"}, i \in {"absent", "id1"}}
    \cup {[method |-> "tools/call", id |-> i, tool |-> t] :
            i \in {"absent", "id1"}, t \in {"registered", "unknown"}}

\* Tool handlers, by what they do: whether they look at ctx.Done() before
\* anything else, and what they return otherwise: a payload (possibly nil)
\* with a nil error, or an error.
ToolHandlers ==
    {[observesCtx |-> o, result |-> r, err |-> "none"] :
        o \in BOOLEAN, r \in {"null", "text", "data"}}
    \cup {[observesCtx |-> o, result |-> "null", err |-> "intentional error"] : o \in BOOLEAN}

\* tool.Handler(ctx, arguments) for a handler of the given behaviour.
CallHandler(h, ctxIsDone) ==
    IF h.observesCtx /\ ctxIsDone
    THEN [result |-> "null", err |-> "context canceled"]
    ELSE [result |-> h.result, err |-> h.err]

NoMcpResponse ==
    [id |-> "absent", kind |-> "none", code |-> "none", isError |-> FALSE,
     content |-> <<>>, result |-> "none"]

\* fmt.Sprintf("Error: %v", err)
ErrorText(err) == <<"Error: ", err>>

\* Variant of HandleCallTool that turns a handler error into a JSON-RPC error.
HandleCallToolRpcError(msgID, ret) ==
    IF ret.err # "none"
    THEN [NoMcpResponse EXCEPT !.id = msgID, !.kind = "error", !.code = "-32603"]
    ELSE [NoMcpResponse EXCEPT !.id = msgID, !.kind = "result", !.result = ret.result]

\* Variant of HandleCallTool that tests the context itself before it uses
\* what the handler returned.
HandleCallToolChecksCtx(msgID, ret) ==
    IF ret.err # "none" \/ mcpCtxDone
    THEN [NoMcpResponse EXCEPT !.id = msgID, !.kind = "result", !.isError = TRUE,
                              !.content = ErrorText("context canceled"), !.result = "errorResult"]
    ELSE [NoMcpResponse EXCEPT !.id = msgID, !.kind = "result", !.result = ret.result]

\* handleCallTool after the handler has returned: its error becomes a
\* result with isError true and one text content block; otherwise its
\* payload is the result as it is.
HandleCallTool(msgID, ret) ==
    IF ret.err # "none"
    THEN [NoMcpResponse EXCEPT !.id = msgID, !.kind = "result", !.isError = TRUE,
                              !.content = ErrorText(ret.err), !.result = "errorResult"]
    ELSE [NoMcpResponse EXCEPT !.id = msgID, !.kind = "result", !.result = ret.result]

\* HandleRequest for the requests that call no handler.
HandleWithoutTool(req) ==
    CASE req.method = "initialize" ->
            [NoMcpResponse EXCEPT !.id = req.id, !.kind = "result", !.result = "serverInfo"]
      [] req.method = "tools/list" ->
            [NoMcpResponse EXCEPT !.id = req.id, !.kind = "result", !.result = "tools"]
      [] req.method = "notifications/initialized" ->
            [NoMcpResponse EXCEPT !.kind = "result", !.result = "empty"]
      [] req.method = "tools/call" ->
            [NoMcpResponse EXCEPT !.id = req.id, !.kind = "error", !.code = "-32602"]
      [] OTHER ->
            [NoMcpResponse EXCEPT !.id = req.id, !.kind = "error", !.code = "-32601"]

CallsHandler(req) == req.method = "tools/call" /\ req.tool = "registered"

\* HandleRequest is called with a request and a context; the registered
\* tool has a handler of some behaviour.
McpRequest(req, ctxIsDone, h) ==
    /\ mcpPc = "idle"
    /\ mcpRequest' = req
    /\ mcpCtxDone' = ctxIsDone
    /\ mcpHandler' = h
    /\ mcpPc' = "dispatch"
    /\ UNCHANGED <<mcpReturn, mcpResponse, nonMcp>>

\* result, err := tool.Handler(ctx, arguments)
McpHandlerReturns ==
    /\ mcpPc = "dispatch"
    /\ CallsHandler(mcpRequest)
    /\ mcpReturn' = CallHandler(mcpHandler, mcpCtxDone)
    /\ mcpPc' = "handled"
    /\ UNCHANGED <<mcpRequest, mcpCtxDone, mcpHandler, mcpResponse, nonMcp>>

\* HandleRequest returns its reply.
McpRespond ==
    /\ \/ mcpPc = "handled"
       \/ mcpPc = "dispatch" /\ ~CallsHandler(mcpRequest)
    /\ mcpResponse' = IF mcpPc = "handled"
                      THEN HandleCallTool(mcpRequest.id, mcpReturn)
                      ELSE HandleWithoutTool(mcpRequest)
    /\ mcpPc' = "done"
    /\ UNCHANGED <<mcpRequest, mcpCtxDone, mcpHandler, mcpReturn, nonMcp>>

\* ------------------------------------------------------ multiplexer: Close
\* queryHandler.Close, first statement: q.cancelFunc().
CloseCancel ==
    /\ cpc = "idle"
    /\ rpc # "created"
    /\ cancelled' = TRUE
    /\ cpc' = "transportClose"
    /\ UNCHANGED <<tvars, wvars, rvars, qvars, hvars, resultChan, evars, consumed>>

\* Variant of CloseTransport without the early return on t.cmd == nil.
CloseTransportAgain ==
    /\ cpc = "transportClose"
    /\ InsideWrite = {}
    /\ ready' = FALSE
    /\ childGone' = TRUE
    /\ cmd' = "nil"
    /\ stdin' = "nil"
    /\ exitError' = FALSE
    /\ cpc' = "idle"
    /\ UNCHANGED <<exited, stdinPipe, cancelled>>
    /\ UNCHANGED <<tvars, rvars, qvars, hvars, resultChan, evars, consumed>>

\* queryHandler.Close, second statement: q.transport.Close().  It takes the
\* write lock of t.mu, so it waits for the goroutines inside Write.  With
\* t.cmd already nil it returns after setting t.ready to false; otherwise it
\* closes t.stdin and sets it to nil.
CloseTransport ==
    /\ cpc = "transportClose"
    /\ InsideWrite = {}
    /\ ready' = FALSE
    /\ childGone' = TRUE
    /\ IF cmd = "set"
       THEN cmd' = "nil" /\ stdin' = "nil" /\ exitError' = FALSE
       ELSE UNCHANGED <<cmd, stdin, exitError>>
    /\ cpc' = "idle"
    /\ UNCHANGED <<exited, stdinPipe, cancelled>>
    /\ UNCHANGED <<tvars, rvars, qvars, hvars, resultChan, evars, consumed>>

CloseReturned == cmd = "nil"

\* ------------------------------------------ multiplexer: the hook registry
\* Hook callbacks configured in the options (all events and matchers
\* together), at most.
MaxHooks == 2
\* Largest value q.nextCallbackID reaches.
MaxCallbackIds == 3
\* The callback ids an inbound hook_callback request can name.
CallbackIds == 0..MaxCallbackIds

nonHook == <<tvars, wvars, rvars, qvars, hvars, cvars, resultChan, isStreamingMode, ctxDone,
             fvars, kvars, ivars, svars, pvars, mvars, nvars, uvars, bvars, yvars, zvars, xvars, consumed>>

\* Initialize in streaming mode: head of the loops over q.hooks, for an
\* options value with n hook callbacks.  Its callers call it after Start.
HookInitialize(n) ==
    /\ hkPc \in {"idle", "sent"}
    /\ rpc # "created"
    /\ isStreamingMode
    /\ nextCallbackID + n <= MaxCallbackIds
    /\ hkPc' = "register"
    /\ hkLeft' = n
    /\ UNCHANGED <<hookCallbacks, nextCallbackID, hkReads, nonHook>>

\* One turn of the inner loop: callbackID is "hook_<nextCallbackID>", the
\* counter is incremented, q.hookCallbacks[callbackID] = callback.  The map
\* is written without a lock.
HookRegister ==
    /\ hkPc = "register"
    /\ hkLeft > 0
    /\ hookCallbacks' = {e \in hookCallbacks : e[1] # nextCallbackID}
                            \cup {<<nextCallbackID, hkLeft>>}
    /\ nextCallbackID' = nextCallbackID + 1
    /\ hkLeft' = hkLeft - 1
    /\ UNCHANGED <<hkPc, hkReads, nonHook>>

\* The loops are over: the initialize request is built and sent.
HookInitializeSend ==
    /\ hkPc = "register"
    /\ hkLeft = 0
    /\ hkPc' = "sent"
    /\ UNCHANGED <<hookCallbacks, nextCallbackID, hkLeft, hkReads, nonHook>>

\* q.hookCallbacks[callbackID]: the hooks found under the key.
HookLookup(callbackID) == {e[2] : e \in {x \in hookCallbacks : x[1] = callbackID}}

\* handleHookCallback for a request that names callbackID: the lookup in
\* q.hookCallbacks, without a lock; an unknown id is an error, otherwise the
\* callback runs and returns a result or an error.
HandleHookCallback(h, callbackID) ==
    /\ hPc[h] = "run"
    /\ hSub[h] = "hook_callback"
    /\ hkReads' = hkReads \cup {<<callbackID, HookLookup(callbackID)>>}
    /\ \E cb \in (IF HookLookup(callbackID) = {} THEN {"fail"} ELSE {"ok", "fail"}) :
        /\ hCb' = [hCb EXCEPT ![h] = cb]
        /\ hRes' = [hRes EXCEPT ![h] = HandlerResult(hSub[h], cb)]
    /\ hPc' = [hPc EXCEPT ![h] = "write"]
    /\ UNCHANGED hSub
    /\ UNCHANGED <<hookCallbacks, nextCallbackID, hkPc, hkLeft>>
    /\ UNCHANGED <<tvars, wvars, rvars, qvars, cvars, resultChan, isStreamingMode, ctxDone,
                   fvars, kvars, ivars, svars, pvars, mvars, nvars, uvars, bvars, yvars, zvars, xvars, consumed>>

\* ------------------------------------------------ multiplexer: StreamInput
\* Number of messages the prompt channel yields before it is closed.
MaxInput == 1

nonInput == <<tvars, rvars, qvars, hvars, cvars, resultChan, isStreamingMode, ctxDone,
              fvars, kvars, ivars, svars, pvars, mvars, gvars, uvars, bvars, yvars, zvars, xvars, consumed>>

\* A message of the prompt channel, as written to the agent's stdin.
UserFrame(n) == [type |-> "user", id |-> n, subtype |-> "none"]

\* go q.StreamInput(ctx, promptChan): started by the connection once
\* Initialize has returned, with a channel that yields n messages and is then
\* closed.
StreamInput(n) ==
    /\ siPc = "idle"
    /\ rpc # "created"
    /\ isStreamingMode
    /\ siPc' = "select"
    /\ siLeft' = n
    /\ UNCHANGED <<siRet, siCtxDone, wvars, nonInput>>

\* The caller cancels the context it gave to StreamInput.
StreamInputCancel ==
    /\ siPc # "idle"
    /\ ~siCtxDone
    /\ siCtxDone' = TRUE
    /\ UNCHANGED <<siPc, siLeft, siRet, wvars, nonInput>>

\* select: case <-ctx.Done()
StreamInputCtxDone ==
    /\ siPc = "select"
    /\ siCtxDone
    /\ siPc' = "done"
    /\ siRet' = "ctxErr"
    /\ UNCHANGED <<siLeft, siCtxDone, wvars, nonInput>>

\* select: case msg, ok := <-stream with ok true, then transport.Write up to
\* its checks; an error of Write is returned.
StreamInputWriteEnter ==
    /\ siPc = "select"
    /\ siLeft > 0
    /\ RLockGranted
    /\ IF WriteAllowed
       THEN siPc' = "inWrite" /\ UNCHANGED siRet
       ELSE siPc' = "done" /\ siRet' = "writeErr"
    /\ siLeft' = siLeft - 1
    /\ UNCHANGED <<siCtxDone, wvars, nonInput>>

\* t.stdin.Write of the message returns.
StreamInputWriteExit ==
    /\ siPc = "inWrite"
    /\  IF ~childGone
        THEN /\ stdinPipe' = stdinPipe \cup {UserFrame(Cardinality({f \in stdinPipe : f.type = "user"}) + 1)}
             /\ siPc' = "select"
             /\ UNCHANGED <<ready, exitError, siRet>>
        ELSE /\ ready' = FALSE
             /\ exitError' = TRUE
             /\ siPc' = "done"
             /\ siRet' = "writeErr"
             /\ UNCHANGED stdinPipe
    /\ UNCHANGED <<exited, cmd, stdin, childGone, siLeft, siCtxDone, nonInput>>

\* select: case msg, ok := <-stream with ok false: transport.EndInput().  It
\* takes the write lock of t.mu, closes t.stdin and sets it to nil.
StreamInputEnd ==
    /\ siPc = "select"
    /\ siLeft = 0
    /\ InsideWrite = {}
    /\ stdin' = "nil"
    /\ siPc' = "done"
    /\ siRet' = "nil"
    /\ UNCHANGED <<ready, exited, exitError, cmd, stdinPipe, childGone>>
    /\ UNCHANGED <<siLeft, siCtxDone, nonInput>>

\* ------------------------------------------- transport: Connect, IsReady
\* Calls of Connect on one transport, at most.
MaxConnects == 4

nonConnect == <<tvars, rvars, qvars, hvars, cvars, resultChan, isStreamingMode, ctxDone,
                fvars, kvars, ivars, svars, pvars, mvars, nvars, gvars, uvars, bvars,
                zvars, xvars, consumed>>

\* Where Connect can fail: the version check, the working directory, the
\* stdin, stdout or stderr pipe, the start of the process; or nowhere.
ConnectFailures == {"none", "version", "cwd", "stdinPipe", "outPipe", "start"}

\* NewSubprocessCLITransport: a transport that has not been connected.
NewTransport ==
    /\ rpc = "created"
    /\ tpc = "idle"
    /\ tcPhase = "connected"
    /\ tcCalls = 0
    /\ ready' = FALSE
    /\ cmd' = "nil"
    /\ stdin' = "nil"
    /\ tcPhase' = "new"
    /\ UNCHANGED <<exited, exitError, stdinPipe, childGone, tcRet, tcCalls, nonConnect>>

\* SubprocessCLITransport.Connect.  With t.cmd set it returns nil at once.
\* Otherwise: the version check; t.cmd is assigned; the working directory is
\* checked; the pipes are made (t.stdin is assigned when its pipe is made);
\* the process is started (a failure is stored in t.exitError); in
\* non-streaming mode stdin is closed; t.ready is set.  Every failure
\* returns at once, leaving what has been assigned.
TransportConnect(failAt) ==
    /\ rpc = "created"
    /\ tcCalls < MaxConnects
    /\ tcCalls' = tcCalls + 1
    /\ IF cmd = "set"
       THEN /\ tcRet' = "nil"
            /\ UNCHANGED <<ready, exited, exitError, cmd, stdin, childGone, tcPhase>>
       ELSE IF failAt = "none"
            THEN /\ cmd' = "set"
                 /\ stdin' = IF isStreamingMode THEN "open" ELSE "closed"
                 /\ ready' = TRUE
                 /\ exited' = FALSE
                 /\ childGone' = FALSE
                 /\ tcPhase' = "connected"
                 /\ tcRet' = "nil"
                 /\ UNCHANGED exitError
            ELSE /\ tcRet' = "error"
                 /\ cmd' = IF failAt = "version" THEN cmd ELSE "set"
                 /\ stdin' = IF failAt \in {"outPipe", "start"} THEN "open" ELSE stdin
                 /\ exitError' = (exitError \/ failAt = "start")
                 /\ UNCHANGED <<ready, exited, childGone, tcPhase>>
    /\ UNCHANGED <<stdinPipe, nonConnect>>

\* SubprocessCLITransport.IsReady
IsReady == ready

\* SubprocessCLITransport.Close called on the transport itself, no handler
\* having been started on it: t.ready is cleared; with t.cmd set, stdin is
\* closed, the process is killed and waited for, t.cmd and t.exitError are
\* cleared.
TransportClose ==
    /\ rpc = "created"
    /\ cpc = "idle"
    /\ tcPhase # "connected" \/ tcCalls > 0
    /\ ready' = FALSE
    /\ tcPhase' = IF tcPhase = "connected" THEN "closed" ELSE tcPhase
    /\ IF cmd = "set"
       THEN /\ cmd' = "nil"
            /\ stdin' = "nil"
            /\ exitError' = FALSE
            /\ childGone' = TRUE
       ELSE UNCHANGED <<cmd, stdin, exitError, childGone>>
    /\ UNCHANGED <<exited, stdinPipe, tcRet, tcCalls, nonConnect>>

\* ------------------------------------------------------------------ facade
\* c.queryHandler of the client.  ConnectWithPrompt assigns it and starts the
\* read goroutine in one call; Disconnect calls Close on it and leaves the
\* field as it is.
QueryHandlerIsNil == rpc = "created"

\* Variant of FacadeControl that returns no error without a queryHandler.
FacadeControlSilent(r) ==
    IF QueryHandlerIsNil
    THEN /\ reqPc[r] = "idle"
         /\ \A x \in RequestIds : x > r => reqPc[x] # "idle"
         /\ outcome' = [outcome EXCEPT ![r] = Append(@, Result("success", 0))]
         /\ reqPc' = [reqPc EXCEPT ![r] = "done"]
         /\ UNCHANGED <<requestCounter, pendingControlResponses, resultChan, removed>>
         /\ UNCHANGED <<tvars, wvars, rvars, hvars, cvars, evars, consumed>>
    ELSE SendControlRequest(r)

\* Interrupt, SetPermissionMode, SetModel: with c.queryHandler nil the
\* "not connected" error is returned at once; otherwise the call is
\* delegated to the multiplexer, which runs sendControlRequest.  (A call
\* that is turned away takes no request id: it is recorded in the last free
\* slot of the callers, the ids being given out from the first.)
FacadeControl(r) ==
    IF QueryHandlerIsNil
    THEN /\ reqPc[r] = "idle"
         /\ \A x \in RequestIds : x > r => reqPc[x] # "idle"
         /\ outcome' = [outcome EXCEPT ![r] = Append(@, Result("notConnected", 0))]
         /\ reqPc' = [reqPc EXCEPT ![r] = "done"]
         /\ UNCHANGED <<requestCounter, pendingControlResponses, resultChan, removed>>
         /\ UNCHANGED <<tvars, wvars, rvars, hvars, cvars, evars, consumed>>
    ELSE SendControlRequest(r)

\* ------------------------------------------------- multiplexer: Initialize
nonInit == <<tvars, wvars, rvars, qvars, hvars, cvars, resultChan, isStreamingMode,
             ctxDone, fvars, kvars, svars, pvars, mvars, lvars, consumed>>

\* Variant of InitializeBegin without the test of the streaming mode.
InitializeBeginAnyMode ==
    /\ initPc = "idle"
    /\ rpc # "created"
    /\ requestCounter < MaxRequests
    /\ initPc' = "call"
    /\ initReq' = requestCounter + 1
    /\ UNCHANGED <<initRet, initResult, initPayload, nonInit>>

\* queryHandler.Initialize up to its call of sendControlRequest.  Not in
\* streaming mode it returns (nil, nil) at once.  Otherwise it builds the
\* hooks configuration and the request; the request takes the next id.
InitializeBegin ==
    /\ initPc = "idle"
    /\ rpc # "created"
    /\ requestCounter < MaxRequests
    /\ IF ~isStreamingMode
       THEN /\ initPc' = "done"
            /\ initRet' = "nil"
            /\ UNCHANGED initReq
       ELSE /\ initPc' = "call"
            /\ initReq' = requestCounter + 1
            /\ UNCHANGED initRet
    /\ UNCHANGED <<initResult, initPayload, nonInit>>

\* Initialize is about to register its request.
InitializeAtSend == initPc = "call" /\ reqPc[initReq] = "idle"

\* The call q.sendControlRequest(ctx, request) of Initialize.
InitializeSend ==
    /\ InitializeAtSend
    /\ SendControlRequest(initReq)

\* Return of sendControlRequest inside Initialize: an error is passed on;
\* a response is stored in q.initResult and returned.
InitializeReturn ==
    /\ initPc = "call"
    /\ reqPc[initReq] = "done"
    /\ initPc' = "done"
    /\ IF outcome[initReq][1].kind = "success"
       THEN initRet' = "result" /\ initResult' = "set" /\ initPayload' = initReq
       ELSE initRet' = "error" /\ UNCHANGED <<initResult, initPayload>>
    /\ UNCHANGED <<initReq, nonInit>>

\* Initialize is called once more on the same handler, after its earlier
\* call has returned: nothing in it depends on q.initialized or on
\* q.initResult.
InitializeAgain ==
    /\ initPc = "done"
    /\ rpc # "created"
    /\ requestCounter < MaxRequests
    /\ initPc' = "idle"
    /\ UNCHANGED <<initReq, initRet, initResult, initPayload, nonInit>>

\* ------------------------------------------------- permission configuration
\* Variant of ValidatePermissions without the streaming requirement.
ValidatePermissionsAnyPrompt(canUseTool, toolName, isStreaming) ==
    IF canUseTool
    THEN IF toolName # "nil"
         THEN [err |-> TRUE, toolName |-> "unset"]
         ELSE [err |-> FALSE, toolName |-> "stdio"]
    ELSE [err |-> FALSE, toolName |-> toolName]

\* validateAndConfigurePermissions: with a permission callback, an error
\* unless the prompt is streaming and no permission_prompt_tool_name is set,
\* and then a copy of the options whose permission_prompt_tool_name is
\* "stdio"; without a callback, the options as they are.
ValidatePermissions(canUseTool, toolName, isStreaming) ==
    IF canUseTool
    THEN IF ~isStreaming
         THEN [err |-> TRUE, toolName |-> "unset"]
         ELSE IF toolName # "nil"
              THEN [err |-> TRUE, toolName |-> "unset"]
              ELSE [err |-> FALSE, toolName |-> "stdio"]
    ELSE [err |-> FALSE, toolName |-> toolName]

PromptKinds == {"nil", "string", "channel"}

\* What is passed as isStreaming: ConnectWithPrompt passes !isString;
\* processQuery passes whether the prompt is a receive channel.
PromptIsStreaming(e, p) ==
    IF e = "client" THEN p # "string" ELSE p = "channel"

\* The mode of the multiplexer that is built: the client always builds a
\* streaming one, processQuery one in the mode of its prompt.
BuildsStreaming(e, p) ==
    IF e = "client" THEN TRUE ELSE p = "channel"

\* -------------------------------------------- client: ConnectWithPrompt
nonClient == <<tvars, wvars, rvars, qvars, hvars, cvars, resultChan, isStreamingMode,
               ctxDone, fvars, ivars, svars, pvars, mvars, lvars, consumed>>

\* Head of ConnectWithPrompt (entry "client") or of processQuery (entry
\* "query", whose prompt is never nil): the client stores its cancellable
\* context, then the permission settings are validated; an error is
\* returned at once.
ConnectBegin(e, p, canUseTool, toolName) ==
    /\ connPc = "idle"
    /\ entry = "none"
    /\ e = "query" => p # "nil"
    /\ isStreamingMode = BuildsStreaming(e, p)
    /\ entry' = e
    /\ prompt' = p
    /\ optCanUseTool' = canUseTool
    /\ optToolName' = toolName
    /\ cCancel' = (e = "client")
    /\ LET v == ValidatePermissions(canUseTool, toolName, PromptIsStreaming(e, p))
       IN  IF v.err
           THEN /\ connRet' = "configError"
                /\ connPc' = "done"
                /\ UNCHANGED effToolName
           ELSE /\ effToolName' = v.toolName
                /\ connPc' = "transport"
                /\ UNCHANGED connRet
    /\ UNCHANGED <<cCtxDone, cTransport, tConnects, discRet, infoRet, nonClient>>

\* The transport: NewSubprocessCLITransport with the configured options
\* (it can fail), then transport.Connect (it can fail).
ConnectTransport(res) ==
    /\ connPc = "transport"
    /\ IF res = "newError"
       THEN /\ connRet' = "newError"
            /\ connPc' = "done"
            /\ UNCHANGED <<cTransport, tConnects>>
       ELSE /\ cTransport' = "set"
            /\ tConnects' = tConnects + 1
            /\ IF res = "connectError"
               THEN connRet' = "connectError" /\ connPc' = "done"
               ELSE connPc' = "start" /\ UNCHANGED connRet
    /\ UNCHANGED <<entry, cCancel, cCtxDone, prompt, optCanUseTool, optToolName,
                   effToolName, discRet, infoRet, nonClient>>

\* newQueryHandler and queryHandler.Start.
ConnectStart ==
    /\ connPc = "start"
    /\ Start

\* The call of Initialize: always by the client, by processQuery only for a
\* streaming prompt.
ConnectInitialize ==
    /\ connPc = "start"
    /\ isStreamingMode
    /\ InitializeBegin

\* Return of the connection: the error of Initialize, or nil.
ConnectReturn ==
    /\ connPc = "start"
    /\ rpc # "created"
    /\ IF isStreamingMode
       THEN /\ initPc = "done"
            /\ connRet' = IF initRet = "error" THEN "initError" ELSE "nil"
       ELSE connRet' = "nil"
    /\ connPc' = "done"
    /\ UNCHANGED <<entry, cCancel, cCtxDone, cTransport, prompt, optCanUseTool, optToolName,
                   effToolName, tConnects, discRet, infoRet, nonClient>>

\* No connection is being set up by another goroutine.
ClientAtRest == entry # "query" /\ connPc \in {"idle", "done"}

\* ClaudeSDKClient.GetServerInfo: nil without a queryHandler, otherwise
\* q.initResult (nil as long as Initialize has stored nothing).  It has no
\* error result.
GetServerInfo ==
    /\ ClientAtRest
    /\ infoRet = "none"
    /\ infoRet' = IF QueryHandlerIsNil \/ initResult = "unset" THEN "nil" ELSE "info"
    /\ UNCHANGED <<entry, connPc, connRet, cCancel, cCtxDone, cTransport, prompt,
                   optCanUseTool, optToolName, effToolName, tConnects, discRet, nonClient>>

\* Interrupt, SetPermissionMode, SetModel on the client.
ClientControl(r) ==
    /\ ClientAtRest
    /\ ~InitializeAtSend
    /\ FacadeControl(r)

\* Variant of Disconnect that reports a client without queryHandler as an
\* error.
DisconnectFailsUnconnected ==
    /\ ClientAtRest
    /\ IF QueryHandlerIsNil
       THEN /\ discRet = "none"
            /\ discRet' = "notConnected"
            /\ cCtxDone' = (cCtxDone \/ cCancel)
            /\ UNCHANGED <<entry, connPc, connRet, cCancel, cTransport, prompt, optCanUseTool,
                           optToolName, effToolName, tConnects, infoRet, nonClient>>
       ELSE CloseCancel

\* ClaudeSDKClient.Disconnect: c.cancel() if there is one; with a
\* queryHandler, its Close (continued by CloseTransport); otherwise nil.
Disconnect ==
    /\ ClientAtRest
    /\ IF QueryHandlerIsNil
       THEN /\ discRet = "none"
            /\ discRet' = "nil"
            /\ cCtxDone' = (cCtxDone \/ cCancel)
            /\ UNCHANGED <<entry, connPc, connRet, cCancel, cTransport, prompt, optCanUseTool,
                           optToolName, effToolName, tConnects, infoRet, nonClient>>
       ELSE CloseCancel

\* ------------------------------- client: ReceiveMessages, ReceiveResponse
\* Capacity of the channels they return: make(chan Message, 10).
RecvChCap == 10

nonStream == <<tvars, wvars, qvars, hvars, cvars, resultChan, isStreamingMode, ctxDone,
               fvars, kvars, ivars, pvars, mvars, lvars, consumed, messageChanClosed, rpc, rmsg, rchan>>

\* parseMessage: an error for a frame of no known message type.
ParseOK(f) == f.subtype # "bad"
IsResultMessage(f) == f.subtype = "result"

\* ReceiveResponse is called on a connected client: its goroutine starts and
\* calls ReceiveMessages(receiveCtx), whose goroutine starts.
ReceiveResponse ==
    /\ rrPc = "idle"
    /\ ~QueryHandlerIsNil
    /\ rrPc' = "range"
    /\ mPc' = "select"
    /\ UNCHANGED <<mMsg, inner, innerClosed, rrMsg, respCh, respClosed, recvCtxDone,
                   uCtxDone, decoded, yielded, mEnd, messageChan, errorChan, nonStream>>

\* receiveCtx is done: by its own cancel or by the context it derives from.
ReceiveCtxDone == recvCtxDone \/ uCtxDone

\* ReceiveMessages returns: the deferred close(msgCh) runs.
ReceiveMessagesReturns ==
    /\ mPc' = "done"
    /\ mMsg' = NoFrame
    /\ innerClosed' = TRUE

\* select: case <-ctx.Done()
ReceiveMessagesCtxDone ==
    /\ mPc \in {"select", "send"}
    /\ ReceiveCtxDone
    /\ ReceiveMessagesReturns
    /\ mEnd' = "ctx"
    /\ UNCHANGED <<inner, rrPc, rrMsg, respCh, respClosed, recvCtxDone, uCtxDone,
                   decoded, yielded, messageChan, errorChan, nonStream>>

\* select: case err := <-ReceiveErrors() with an error: return.  (A nil from
\* the closed channel goes round the loop again.)
ReceiveMessagesError ==
    /\ mPc = "select"
    /\ errorChan = "err"
    /\ errorChan' = "empty"
    /\ ReceiveMessagesReturns
    /\ mEnd' = "error"
    /\ UNCHANGED <<inner, rrPc, rrMsg, respCh, respClosed, recvCtxDone, uCtxDone,
                   decoded, yielded, messageChan, nonStream>>

\* select: case data, ok := <-ReceiveMessages(): return on a closed channel
\* and on a parse error; otherwise go on to send the decoded message.
ReceiveMessagesRecv ==
    /\ mPc = "select"
    /\ IF messageChan # <<>>
       THEN /\ messageChan' = Tail(messageChan)
            /\ IF ParseOK(Head(messageChan))
               THEN /\ mPc' = "send"
                    /\ mMsg' = Head(messageChan)
                    /\ decoded' = Append(decoded, Head(messageChan))
                    /\ UNCHANGED <<innerClosed, mEnd>>
               ELSE /\ ReceiveMessagesReturns
                    /\ mEnd' = "parse"
                    /\ UNCHANGED decoded
       ELSE /\ messageChanClosed
            /\ ReceiveMessagesReturns
            /\ mEnd' = "closed"
            /\ UNCHANGED <<messageChan, decoded>>
    /\ UNCHANGED <<inner, rrPc, rrMsg, respCh, respClosed, recvCtxDone, uCtxDone,
                   yielded, errorChan, nonStream>>

\* inner select: case msgCh <- msg
ReceiveMessagesSend ==
    /\ mPc = "send"
    /\ Len(inner) < RecvChCap
    /\ inner' = Append(inner, mMsg)
    /\ mPc' = "select"
    /\ mMsg' = NoFrame
    /\ UNCHANGED <<innerClosed, rrPc, rrMsg, respCh, respClosed, recvCtxDone, uCtxDone,
                   decoded, yielded, mEnd, messageChan, errorChan, nonStream>>

\* ReceiveResponse returns: the deferred cancel() and close(msgCh) run.
ReceiveResponseReturns ==
    /\ rrPc' = "done"
    /\ rrMsg' = NoFrame
    /\ recvCtxDone' = TRUE
    /\ respClosed' = TRUE

\* for msg := range c.ReceiveMessages(receiveCtx): the next message, or the
\* end of the loop on the closed channel.
ReceiveResponseRange ==
    /\ rrPc = "range"
    /\ IF inner # <<>>
       THEN /\ rrMsg' = Head(inner)
            /\ inner' = Tail(inner)
            /\ rrPc' = "send"
            /\ UNCHANGED <<recvCtxDone, respClosed>>
       ELSE /\ innerClosed
            /\ ReceiveResponseReturns
            /\ UNCHANGED inner
    /\ UNCHANGED <<mPc, mMsg, innerClosed, respCh, uCtxDone, decoded, yielded, mEnd,
                   messageChan, errorChan, nonStream>>

\* Variant of ReceiveResponseSend that does not look at the message type.
ReceiveResponseSendOn ==
    /\ rrPc = "send"
    /\ Len(respCh) < RecvChCap
    /\ respCh' = Append(respCh, rrMsg)
    /\ rrPc' = "range"
    /\ rrMsg' = NoFrame
    /\ UNCHANGED <<recvCtxDone, respClosed>>
    /\ UNCHANGED <<mPc, mMsg, inner, innerClosed, uCtxDone, decoded, yielded, mEnd,
                   messageChan, errorChan, nonStream>>

\* select: case msgCh <- msg, then the test for a ResultMessage, after which
\* the goroutine cancels receiveCtx and returns.
ReceiveResponseSend ==
    /\ rrPc = "send"
    /\ Len(respCh) < RecvChCap
    /\ respCh' = Append(respCh, rrMsg)
    /\ IF IsResultMessage(rrMsg)
       THEN ReceiveResponseReturns
       ELSE /\ rrPc' = "range"
            /\ rrMsg' = NoFrame
            /\ UNCHANGED <<recvCtxDone, respClosed>>
    /\ UNCHANGED <<mPc, mMsg, inner, innerClosed, uCtxDone, decoded, yielded, mEnd,
                   messageChan, errorChan, nonStream>>

\* select: case <-ctx.Done()
ReceiveResponseCtxDone ==
    /\ rrPc = "send"
    /\ uCtxDone
    /\ ReceiveResponseReturns
    /\ UNCHANGED <<mPc, mMsg, inner, innerClosed, respCh, uCtxDone, decoded, yielded, mEnd,
                   messageChan, errorChan, nonStream>>

\* The caller cancels the context it gave to ReceiveResponse.
ResponseCtxCancel ==
    /\ rrPc \in {"range", "send"}
    /\ ~uCtxDone
    /\ uCtxDone' = TRUE
    /\ UNCHANGED <<mPc, mMsg, inner, innerClosed, rrPc, rrMsg, respCh, respClosed,
                   recvCtxDone, decoded, yielded, mEnd, messageChan, errorChan, nonStream>>

\* The consumer takes a message from the channel ReceiveResponse returned.
TakeResponse ==
    /\ respCh # <<>>
    /\ yielded' = Append(yielded, Head(respCh))
    /\ respCh' = Tail(respCh)
    /\ UNCHANGED <<mPc, mMsg, inner, innerClosed, rrPc, rrMsg, respClosed,
                   recvCtxDone, uCtxDone, decoded, mEnd, messageChan, errorChan, nonStream>>

\* The consumer, having drained the closed channel of its last call, calls
\* ReceiveResponse again: new channels, a new receiveCtx, two new
\* goroutines.  (The goroutine of ReceiveMessages of the last call is taken
\* to have returned by then.)
ReceiveResponseAgain ==
    /\ rrPc = "done"
    /\ mPc = "done"
    /\ respCh = <<>>
    /\ ~uCtxDone
    /\ rrPc' = "range"
    /\ mPc' = "select"
    /\ inner' = <<>>
    /\ innerClosed' = FALSE
    /\ respClosed' = FALSE
    /\ recvCtxDone' = FALSE
    /\ mEnd' = "none"
    /\ UNCHANGED <<mMsg, rrMsg, respCh, uCtxDone, decoded, yielded, messageChan, errorChan,
                   nonStream>>

\* ----------------------------- client: Query, wrapReceiveResponseWithError
\* Everything the wrapper's goroutine leaves alone besides the stream.
nonWrap == <<tvars, wvars, qvars, hvars, cvars, resultChan, isStreamingMode, ctxDone,
             fvars, kvars, ivars, pvars, mvars, nvars, gvars, uvars, bvars, yvars, zvars,
             consumed, messageChanClosed, rpc, rmsg, rchan, messageChan, errorChan>>

\* Query, its message sent: wrapReceiveResponseWithError makes msgCh and
\* errCh and starts its goroutine.
WrapReceiveResponse ==
    /\ wPc = "idle"
    /\ rrPc = "idle"
    /\ ~QueryHandlerIsNil
    /\ wPc' = "range"
    /\ UNCHANGED <<wrapErr, svars, nonWrap>>

\* The goroutine evaluates c.ReceiveResponse(ctx), the operand of its range.
WrapCallsReceiveResponse ==
    /\ wPc = "range"
    /\ ReceiveResponse

\* for msg := range ...; select: case msgCh <- msg.  The consumer of Query
\* drains msgCh, so the send is never held up.
WrapForward ==
    /\ wPc = "range"
    /\ TakeResponse

\* for msg := range ...; select: case <-ctx.Done(): errCh <- ctx.Err() and
\* return, the message in hand dropped.
WrapCtxDone ==
    /\ wPc = "range"
    /\ respCh # <<>>
    /\ uCtxDone
    /\ respCh' = Tail(respCh)
    /\ wrapErr' = "ctxErr"
    /\ wPc' = "done"
    /\ UNCHANGED <<mPc, mMsg, inner, innerClosed, rrPc, rrMsg, respClosed,
                   recvCtxDone, uCtxDone, decoded, yielded, mEnd, nonWrap>>

\* The range ends on the closed channel: the goroutine returns, the
\* deferred close(errCh) and close(msgCh) run.
WrapEnd ==
    /\ wPc = "range"
    /\ respCh = <<>>
    /\ respClosed
    /\ wPc' = "done"
    /\ UNCHANGED <<wrapErr, svars, nonWrap>>

\* ------------------------------------------------------------ specification
ReaderStep ==
    \/ ReaderCtxDone
    \/ ReaderErrCh
    \/ ReaderMsgChClosed
    \/ ReaderRecv
    \/ ReaderSendResult
    \/ ReaderSendData
    \/ ReaderSendDataCtxDone

RequestStep(r) ==
    \/ RequestWriteEnter(r)
    \/ RequestWriteExit(r)
    \/ AwaitResult(r)
    \/ AwaitTimeout(r)
    \/ DeferredDelete(r)

HandlerStep(h) ==
    \/ HandlerRun(h)
    \/ HandlerWriteEnter(h)
    \/ HandlerWriteExit(h)

\* Control plane: outbound control requests, their responses, Close.
Next ==
    \/ Start
    \/ TransportEmit(ResponseFrames({"success"}), MaxResponses)
    \/ ChildExit
    \/ TransportEOF
    \/ TransportError
    \/ ReaderCtxDone
    \/ ReaderErrCh
    \/ ReaderMsgChClosed
    \/ ReaderRecv
    \/ ReaderSendResult
    \/ \E r \in RequestIds : SendControlRequest(r)
    \/ \E r \in RequestIds : RequestStep(r)
    \/ CloseCancel
    \/ CloseTransport

Spec == Init /\ [][Next]_vars

\* Data plane: data frames interleaved with control frames of every type
\* (the control responses name no pending request), inbound handlers, the
\* consumer, Close.
StrayResponseFrames == {ControlResponse(0, st) : st \in {"success", "error"}}

AnyFrame ==
    DataFrames \cup InboundFrames({"can_use_tool"}) \cup CancelFrames \cup StrayResponseFrames

NextData ==
    \/ Start
    \/ TransportEmit(AnyFrame, MaxFrames)
    \/ ChildExit
    \/ TransportEOF
    \/ TransportError
    \/ ReaderCtxDone
    \/ ReaderErrCh
    \/ ReaderMsgChClosed
    \/ ReaderRecv
    \/ ReaderSendData
    \/ ReaderSendDataCtxDone
    \/ Consume
    \/ \E h \in InboundIds : HandlerStep(h)
    \/ CloseCancel
    \/ CloseTransport

DataSpec == Init /\ [][NextData]_vars

\* The Go scheduler runs every runnable goroutine, every timer fires, and the
\* consumer keeps receiving from the data channel: a step that stays enabled
\* is eventually taken.  Nothing is assumed of the agent or of the callers.
Fairness ==
    /\ WF_vars(ReaderStep)
    /\ WF_vars(Consume)
    /\ \A r \in RequestIds : WF_vars(RequestStep(r))
    /\ \A h \in InboundIds : WF_vars(HandlerStep(h))
    /\ WF_vars(CloseTransport)

FairSpec == Spec /\ Fairness

\* Control plane with callers that cancel their context; the agent answers
\* with success or error responses.
NextCancel ==
    \/ Start
    \/ TransportEmit(ResponseFrames({"success", "error"}), MaxResponses)
    \/ ReaderRecv
    \/ ReaderSendResult
    \/ \E r \in RequestIds : SendControlRequest(r)
    \/ \E r \in RequestIds : RequestStep(r)
    \/ \E r \in RequestIds : CallerCancel(r)

CancelSpec == Init /\ [][NextCancel]_vars

\* The client: control operations of the facade at any time, before the
\* connection, while it is up, and after Disconnect.
NextFacade ==
    \/ Start
    \/ TransportEmit(ResponseFrames({"success"}), MaxResponses)
    \/ ReaderRecv
    \/ ReaderSendResult
    \/ \E r \in RequestIds : FacadeControl(r)
    \/ \E r \in RequestIds : RequestStep(r)
    \/ CloseCancel
    \/ CloseTransport

FacadeSpec == Init /\ [][NextFacade]_vars

\* A client from its construction: connection (by ConnectWithPrompt or, for
\* the one-shot entry, processQuery), the operations of a client that has no
\* connection, GetServerInfo and Disconnect at any time.  (The control
\* operations of a connected client are those of NextFacade.)
NextClient ==
    \/ \E e \in {"client", "query"}, p \in PromptKinds, c \in BOOLEAN, n \in {"nil", "user"} :
          ConnectBegin(e, p, c, n)
    \/ \E res \in {"ok", "newError", "connectError"} : ConnectTransport(res)
    \/ ConnectStart
    \/ ConnectInitialize
    \/ InitializeSend
    \/ InitializeReturn
    \/ ConnectReturn
    \/ TransportEmit(ResponseFrames({"success", "error"}), MaxResponses)
    \/ ReaderRecv
    \/ ReaderSendResult
    \/ \E r \in RequestIds : QueryHandlerIsNil /\ ClientControl(r)
    \/ \E r \in RequestIds : RequestStep(r)
    \/ GetServerInfo
    \/ Disconnect
    \/ CloseTransport

ClientSpec == Init /\ [][NextClient]_vars

\* A response stream: messages, result messages and frames that do not
\* parse arrive from the agent, which may exit; ReceiveResponse is called on
\* the connected client and its consumer takes what it yields.
NextReceive ==
    \/ Start
    \/ TransportEmit(DataFrames \cup ResultFrames \cup BadFrames, MaxFrames)
    \/ ChildExit
    \/ TransportEOF
    \/ ReaderErrCh
    \/ ReaderMsgChClosed
    \/ ReaderRecv
    \/ ReaderSendData
    \/ ReceiveResponse
    \/ ReceiveMessagesCtxDone
    \/ ReceiveMessagesError
    \/ ReceiveMessagesRecv
    \/ ReceiveMessagesSend
    \/ ReceiveResponseRange
    \/ ReceiveResponseSend
    \/ ReceiveResponseCtxDone
    \/ ResponseCtxCancel
    \/ TakeResponse

ReceiveSpec == Init /\ [][NextReceive]_vars

\* The response stream of Query: as NextReceive, with the goroutine of
\* wrapReceiveResponseWithError between ReceiveResponse and the consumer.
NextQuery ==
    \/ Start
    \/ TransportEmit(DataFrames \cup ResultFrames \cup BadFrames, MaxFrames)
    \/ ChildExit
    \/ TransportEOF
    \/ ReaderErrCh
    \/ ReaderMsgChClosed
    \/ ReaderRecv
    \/ ReaderSendData
    \/ WrapReceiveResponse
    \/ WrapCallsReceiveResponse
    \/ ReceiveMessagesCtxDone
    \/ ReceiveMessagesError
    \/ ReceiveMessagesRecv
    \/ ReceiveMessagesSend
    \/ ReceiveResponseRange
    \/ ReceiveResponseSend
    \/ ReceiveResponseCtxDone
    \/ ResponseCtxCancel
    \/ WrapForward
    \/ WrapCtxDone
    \/ WrapEnd

QuerySpec == Init /\ [][NextQuery]_vars

\* The multiplexer in either mode: Initialize and other outbound control
\* requests, and the agent's responses.
NextInit ==
    \/ Start
    \/ InitializeBegin
    \/ InitializeSend
    \/ InitializeReturn
    \/ \E r \in RequestIds : ~InitializeAtSend /\ SendControlRequest(r)
    \/ \E r \in RequestIds : RequestStep(r)
    \/ TransportEmit(ResponseFrames({"success", "error"}), MaxResponses)
    \/ ReaderRecv
    \/ ReaderSendResult

InitSpec == Init /\ [][NextInit]_vars

\* One permission request with every kind of callback result.
NextPermission ==
    \/ \E reg \in BOOLEAN, input \in PermInputs : PermRequest(reg, input)
    \/ \E result \in PermResults : PermCallback(result)
    \/ PermRespond

PermissionSpec == Init /\ [][NextPermission]_vars

\* One request to the tool server, for every method, tool handler and
\* state of the context.
NextMcp ==
    \/ \E req \in McpRequests, c \in BOOLEAN, h \in ToolHandlers : McpRequest(req, c, h)
    \/ McpHandlerReturns
    \/ McpRespond

McpSpec == Init /\ [][NextMcp]_vars

\* Input stream: StreamInput writes the prompt channel's messages and ends
\* the input, while the agent sends inbound control requests which the
\* handlers answer.
NextInput ==
    \/ Start
    \/ \E n \in 0..MaxInput : StreamInput(n)
    \/ StreamInputCancel
    \/ StreamInputCtxDone
    \/ StreamInputWriteEnter
    \/ StreamInputWriteExit
    \/ StreamInputEnd
    \/ TransportEmit(InboundFrames(InboundSubtypes), MaxFrames)
    \/ ReaderRecv
    \/ \E h \in InboundIds : HandlerStep(h)

InputSpec == Init /\ [][NextInput]_vars

\* The goroutines of the pump, of the handlers and of StreamInput are
\* scheduled.  Nothing is assumed of the agent or of the caller's context.
InputFairness ==
    /\ WF_vars(ReaderRecv)
    /\ \A h \in InboundIds : WF_vars(HandlerStep(h))
    /\ WF_vars(StreamInputWriteEnter \/ StreamInputWriteExit \/ StreamInputEnd)

InputFairSpec == InputSpec /\ InputFairness

\* Hooks: Initialize registers the configured hook callbacks, once or again,
\* while the agent sends hook_callback requests which the handlers look up.
NextHook ==
    \/ Start
    \/ \E n \in 0..MaxHooks : HookInitialize(n)
    \/ HookRegister
    \/ HookInitializeSend
    \/ TransportEmit(InboundFrames({"hook_callback"}), MaxFrames)
    \/ ReaderRecv
    \/ \E h \in InboundIds, id \in CallbackIds : HandleHookCallback(h, id)
    \/ \E h \in InboundIds : HandlerWriteEnter(h)
    \/ \E h \in InboundIds : HandlerWriteExit(h)

HookSpec == Init /\ [][NextHook]_vars

\* The multiplexer with callers that call Initialize again.
NextReinit ==
    \/ Start
    \/ InitializeBegin
    \/ InitializeSend
    \/ InitializeReturn
    \/ InitializeAgain
    \/ \E r \in RequestIds : RequestStep(r)
    \/ TransportEmit(ResponseFrames({"success", "error"}), MaxResponses)
    \/ ReaderRecv
    \/ ReaderSendResult

ReinitSpec == Init /\ [][NextReinit]_vars

\* Data plane with callers that call Start again, before or after Close.
NextRestart ==
    \/ Start
    \/ StartAgain
    \/ TransportEmit(DataFrames, MaxFrames)
    \/ ReaderCtxDone
    \/ ReaderRecv
    \/ ReaderSendData
    \/ ReaderSendDataCtxDone
    \/ Consume
    \/ CloseCancel
    \/ CloseTransport

RestartSpec == Init /\ [][NextRestart]_vars

\* Response streams one after the other: messages and result messages
\* arrive from a live agent, nothing is cancelled or closed, and the consumer
\* calls ReceiveResponse again when a stream has ended.
NextReceiveAgain ==
    \/ Start
    \/ TransportEmit(DataFrames \cup ResultFrames, MaxFrames)
    \/ ReaderRecv
    \/ ReaderSendData
    \/ ReceiveResponse
    \/ ReceiveResponseAgain
    \/ ReceiveMessagesCtxDone
    \/ ReceiveMessagesRecv
    \/ ReceiveMessagesSend
    \/ ReceiveResponseRange
    \/ ReceiveResponseSend
    \/ TakeResponse

ReceiveAgainSpec == Init /\ [][NextReceiveAgain]_vars

\* Data plane of a handler built with any configured buffer size: data
\* frames, a consumer that may fall behind, Close.
NextBuffer ==
    \/ \E n \in ConfiguredSizes : NewQueryHandler(n)
    \/ Start
    \/ TransportEmit(DataFrames, MaxFrames)
    \/ ReaderCtxDone
    \/ ReaderRecv
    \/ ReaderSendData
    \/ ReaderSendDataCtxDone
    \/ Consume
    \/ CloseCancel
    \/ CloseTransport

BufferSpec == Init /\ [][NextBuffer]_vars

\* The transport on its own: Connect, with every way it can fail, and Close,
\* called again and again.
NextConnect ==
    \/ NewTransport
    \/ \E failAt \in ConnectFailures : TransportConnect(failAt)
    \/ TransportClose

ConnectSpec == Init /\ [][NextConnect]_vars

\* Shutdown with a backlog: the agent has written more than the channels
\* hold, the consumer may have fallen behind, and the handler is closed or
\* the caller's context cancelled.
ReadStep ==
    \/ ReadScan(DataFrames, MaxBacklog)
    \/ ReadSend
    \/ TransportEOF
    \/ TransportEOFFault

NextShutdown ==
    \/ Start
    \/ ReadStep
    \/ ReaderCtxDone
    \/ ReaderErrCh
    \/ ReaderMsgChClosed
    \/ ReaderRecv
    \/ ReaderSendData
    \/ ReaderSendDataCtxDone
    \/ Consume
    \/ CancelCallerCtx
    \/ CloseCancel
    \/ CloseTransport

ShutdownSpec == Init /\ [][NextShutdown]_vars

\* Every goroutine is scheduled and the consumer keeps receiving.
ShutdownFairness ==
    /\ WF_vars(ReadStep)
    /\ WF_vars(ReaderStep)
    /\ WF_vars(Consume)
    /\ WF_vars(CloseTransport)

ShutdownFairSpec == ShutdownSpec /\ ShutdownFairness

TypeOK ==
    /\ tpc \in {"idle", "reading", "ended"}
    /\ errCh \in {"open", "err", "closed"}
    /\ rpc \in {"created", "select", "sendResult", "sendData", "done"}
    /\ pendingControlResponses \subseteq RequestIds
    /\ requestCounter \in 0..MaxRequests
    /\ Len(messageChan) <= Capacity
    /\ Len(msgCh) <= MsgChCap
    /\ \A r \in RequestIds : Len(resultChan[r]) <= ResultChanCap

\* Inbound plane: inbound control requests of every subtype among data
\* frames and control responses that name no pending request, their
\* handlers, the consumer, and a child that may exit while a handler is at
\* work.
NextInbound ==
    \/ Start
    \/ TransportEmit(DataFrames \cup InboundFrames(InboundSubtypes)
                                \cup StrayResponseFrames, MaxFrames)
    \/ ChildExit
    \/ ReaderRecv
    \/ ReaderSendData
    \/ Consume
    \/ \E h \in InboundIds : HandlerStep(h)

InboundSpec == Init /\ [][NextInbound]_vars

\* Every goroutine is scheduled, the handlers included: the callbacks return.
FairInboundSpec == InboundSpec /\ Fairness

\* Only the reader pump and the consumer are sure to run: a callback may stay
\* suspended for ever.
PumpFairness ==
    /\ WF_vars(ReaderStep)
    /\ WF_vars(Consume)

SuspendSpec == InboundSpec /\ PumpFairness

\* Mixed plane: outbound control requests and their responses among data
\* frames and control_cancel_request frames, with the consumer.
NextMixed ==
    \/ Start
    \/ TransportEmit(DataFrames \cup ResponseFrames({"success"}) \cup CancelFrames, MaxFrames)
    \/ ReaderRecv
    \/ ReaderSendResult
    \/ ReaderSendData
    \/ Consume
    \/ \E r \in RequestIds : SendControlRequest(r)
    \/ \E r \in RequestIds : RequestStep(r)

MixedSpec == Init /\ [][NextMixed]_vars

\* =================================================================== claims
Written(r) == ControlRequest(r) \in stdinPipe
IsResponse(res) == res.kind \in {"success", "error"}

\* C1: a caller of sendControlRequest gets at most one outcome, and exactly
\* one once the call is over; for a request whose frame was written it is a
\* control response carrying that request's id or a timeout error, and a
\* response is the outcome only of a request that was written.  A repeated
\* control_response is never handed to the caller a second time.
C1_OneOutcomePerRequest ==
    \A r \in RequestIds :
        /\ Len(outcome[r]) <= 1
        /\ (reqPc[r] \in {"return", "done"}) <=> (Len(outcome[r]) = 1)
        /\ \A i \in 1..Len(outcome[r]) :
            /\ IsResponse(outcome[r][i]) => Written(r) /\ outcome[r][i].id = r
            /\ Written(r) => IsResponse(outcome[r][i]) \/ outcome[r][i].kind = "timeout"

\* A request resolved by a response, whose repeated response was put in its
\* channel afterwards.
C1_Witness ==
    \E r \in RequestIds :
        /\ reqPc[r] = "done"
        /\ Len(outcome[r]) = 1
        /\ IsResponse(outcome[r][1])
        /\ resultChan[r] # <<>>

\* C2 (as claimed): no request id is in pending once a result has been handed
\* to its waiter, i.e. once the result is in the waiter's one-shot channel.
C2_RemovedBeforeHandOver ==
    \A r \in RequestIds :
        (resultChan[r] # <<>> \/ (reqPc[r] = "return" /\ IsResponse(outcome[r][1])))
            => r \notin pendingControlResponses

\* An id is deleted from pending at most once, and exactly once by the time
\* the call is over, with exactly one cause (response, timeout, failed write).
C3_RemovedOnce ==
    \A r \in RequestIds :
        /\ removed[r] <= 1
        /\ (r \in pendingControlResponses) => removed[r] = 0 /\ r <= requestCounter
        /\ (reqPc[r] = "done" /\ r <= requestCounter) =>
                /\ removed[r] = 1
                /\ r \notin pendingControlResponses
                /\ Len(outcome[r]) = 1

\* C3: a request frame is written only for an id that is in pending at that
\* moment; an id is deleted from pending at most once, and exactly once by the
\* time the call is over (response, timeout or failed write); and every id in
\* pending is eventually out of it.
C3_PendingLifecycle ==
    /\ []C3_RemovedOnce
    /\ [][\A r \in RequestIds : (~Written(r) /\ Written(r)') => r \in pendingControlResponses]_vars
    /\ \A r \in RequestIds :
         (r \in pendingControlResponses) ~> (r \notin pendingControlResponses)

\* The write of a request failed and its id is out of pending again.
C3_Witness ==
    \E r \in RequestIds :
        /\ reqPc[r] = "done"
        /\ outcome[r] # <<>>
        /\ outcome[r][1].kind = "writeError"
        /\ removed[r] = 1
        /\ \E x \in RequestIds : x # r /\ removed[x] = 1 /\ IsResponse(outcome[x][1])

\* C5: a control response is put only in the channel of the request whose id
\* it carries, and is returned only to that request's caller.
C5_RoutedByRequestId ==
    \A r \in RequestIds :
        /\ \A i \in 1..Len(resultChan[r]) : resultChan[r][i].id = r
        /\ \A i \in 1..Len(outcome[r]) : IsResponse(outcome[r][i]) => outcome[r][i].id = r

\* Two requests pending at once; the later one is resolved first, and the
\* response of the earlier one is in its channel.
C5_Witness ==
    \E r, x \in RequestIds :
        /\ r < x
        /\ reqPc[r] = "wait"
        /\ resultChan[r] # <<>>
        /\ reqPc[x] \in {"return", "done"}
        /\ IsResponse(outcome[x][1])

\* C6 (as claimed): at most one goroutine is inside the transport's write.
C6_WritesExclusive == Cardinality(InsideWrite) <= 1

\* C7 (as claimed): a caller still awaiting its response once Close has
\* returned is not left to be released by its own timeout.
C7_CloseReleasesWaiters ==
    [][\A r \in RequestIds :
          (CloseReturned /\ reqPc[r] = "wait" /\ reqPc'[r] = "return")
              => outcome'[r][1].kind # "timeout"]_vars

\* C8 (as claimed): at the step in which the reader pump returns because the
\* stream ended or failed, every caller awaiting a response has a result.
C8_StreamEndReleasesWaiters ==
    [][(ReaderErrCh \/ ReaderMsgChClosed)
          => \A r \in RequestIds : reqPc[r] = "wait" => resultChan'[r] # <<>>]_vars

\* C10 (as claimed): once the transport stream has ended or the reader's
\* context is cancelled, the data channel is eventually closed.
C10_DataChannelCloses ==
    (tpc = "ended" \/ cancelled) ~> messageChanClosed

\* The data frames taken by the consumer, then those waiting for it.
Surfaced == consumed \o messageChan

\* C4: the data frames surfaced to the consumer (taken by it, or waiting for
\* it in the data channel) are data frames that arrived, in their order of
\* arrival: the i-th surfaced frame is the i-th data frame of the wire.
C4_DataOrderPreserved ==
    /\ Len(Surfaced) <= NumOf(wire, "data")
    /\ \A i \in 1..Len(Surfaced) : IsData(Surfaced[i]) /\ Surfaced[i].id = i

\* Two data frames with a control frame between them on the wire have both
\* been taken by the consumer while an inbound handler is running.
C4_Witness ==
    /\ Len(consumed) >= 2
    /\ \E i, j, k \in 1..Len(wire) :
        /\ i < j /\ j < k
        /\ wire[i] = "data" /\ wire[j] # "data" /\ wire[k] = "data"
    /\ \E h \in InboundIds : hPc[h] = "run"

\* C9 (as claimed): once Close has returned, the consumer is handed no
\* further data frame.
C9_NothingSurfacedAfterClose ==
    [][CloseReturned => consumed' = consumed]_vars

\* The caller of request r leaves its select by the timeout case.
TimesOut(r) ==
    /\ reqPc[r] = "wait"
    /\ reqPc'[r] = "return"
    /\ outcome'[r] = <<Result("timeout", r)>>

\* The reader pump is stuck in its send on a full one-slot channel.
ReaderBlocked ==
    rpc = "sendResult" /\ Len(resultChan[rchan]) >= ResultChanCap

\* C11: a timeout releases only its own caller, with the timeout error: the
\* step changes nothing of the other callers, of the result channels or of
\* the reader pump, and the entry deleted afterwards is that caller's own;
\* once the call is over its id is out of pending.  The reader pump ends only
\* on cancellation or on the end of the stream, and it is stuck on a result
\* channel only when the agent has sent two responses with the same id: one
\* late response is dropped (no entry) or parked unread in the channel.
C11_TimeoutFreesOnlyItsWaiter ==
    /\ [][\A r \in RequestIds :
            TimesOut(r) =>
                /\ \A x \in RequestIds \ {r} :
                        reqPc'[x] = reqPc[x] /\ outcome'[x] = outcome[x]
                /\ UNCHANGED <<resultChan, rpc, rmsg, rchan, msgCh, messageChanClosed>>]_vars
    /\ [][\A r \in RequestIds :
            (r \in pendingControlResponses /\ r \notin pendingControlResponses')
                => /\ reqPc[r] = "return"
                   /\ pendingControlResponses' = pendingControlResponses \ {r}]_vars
    /\ [][(ReaderRecv /\ Head(msgCh).type = "control_response"
                      /\ Head(msgCh).id \notin pendingControlResponses)
            => UNCHANGED <<rpc, resultChan, reqPc, outcome>>]_vars
    /\ [](\A r \in RequestIds :
            (reqPc[r] = "done" /\ outcome[r] = <<Result("timeout", r)>>)
                => r \notin pendingControlResponses)
    /\ [](rpc = "done" => cancelled \/ tpc = "ended")
    /\ [](ReaderBlocked =>
            /\ rmsg.id = rchan
            /\ \A i \in 1..Len(resultChan[rchan]) : resultChan[rchan][i].id = rmsg.id)

\* A request has timed out and is over, its late response is parked unread in
\* its channel, and a later request has been resolved by its own response
\* while the reader pump is still running.
C11_Witness ==
    \E r, x \in RequestIds :
        /\ r < x
        /\ reqPc[r] = "done"
        /\ outcome[r] = <<Result("timeout", r)>>
        /\ resultChan[r] # <<>>
        /\ reqPc[x] = "done"
        /\ outcome[x] = <<Result("success", x)>>
        /\ rpc = "select"

\* C12 (as claimed): a caller whose context is cancelled and who leaves its
\* wait without a response is given a Cancelled error.
C12_CancelGivesCancelledError ==
    [][\A r \in RequestIds :
          (ctxDone[r] /\ reqPc[r] = "wait" /\ reqPc'[r] = "return"
                      /\ ~IsResponse(outcome'[r][1]))
              => outcome'[r][1].kind = "cancelled"]_vars

\* The control_response frames with request id h written to the child's stdin.
ResponsesTo(h) == {f \in stdinPipe : f.type = "control_response" /\ f.id = h}

\* The transport accepts a write: Write's checks pass and the pipe is open.
Writable == ready /\ ~exited /\ ~exitError /\ ~childGone

InMsgCh(n) == \E i \in 1..Len(msgCh) : msgCh[i] = DataFrame(n)

\* C14 (as claimed): whenever a permission, hook or tool-server callback has
\* failed, the control_response built for the request has subtype error.
C14_CallbackFailureGivesError ==
    \A h \in InboundIds :
        (hCb[h] = "fail" /\ hPc[h] \in {"write", "inWrite", "done"}) => hRes[h] = "error"

\* C14 (amended): a failed permission or hook callback gives a response of
\* subtype error; a failed tool handler gives a response of subtype success,
\* the failure being inside its mcp_response; no step of a handler changes
\* anything of the reader pump, which never ends on account of a handler, and
\* every data frame that has arrived is delivered to the consumer.
C14_FailureReturnedPumpRuns ==
    /\ [](\A h \in InboundIds :
            (hCb[h] = "fail" /\ hPc[h] \in {"write", "inWrite", "done"}) =>
                /\ hSub[h] \in {"can_use_tool", "hook_callback"} => hRes[h] = "error"
                /\ hSub[h] = "mcp_message" => hRes[h] = "success")
    /\ [][(\E h \in InboundIds : hPc[h] # "idle" /\ hPc'[h] # hPc[h])
            => UNCHANGED <<rvars, tvars, cancelled>>]_vars
    /\ [](rpc # "done")
    /\ \A n \in 1..MaxFrames : InMsgCh(n) ~> (Len(consumed) >= n)

\* A permission callback has failed, the error response is on the child's
\* stdin, and a data frame that arrived after the request has been delivered.
C14_Witness ==
    \E h \in InboundIds :
        /\ hSub[h] = "can_use_tool"
        /\ hCb[h] = "fail"
        /\ ResponsesTo(h) = {ControlResponse(h, "error")}
        /\ Len(consumed) = NumOf(wire, "data")
        /\ \E i, j \in 1..Len(wire) :
              i < j /\ wire[i] = "control_request" /\ wire[j] = "data"

\* Number of frames the reader pump has taken from the transport's channel.
TakenByPump == Len(wire) - Len(msgCh)

\* C15: on an inbound control_request the reader pump starts the handler and
\* is back at its select in the same step; and with handlers that may stay
\* suspended for ever, every frame that arrives is still taken by the pump
\* and every data frame is still delivered to the consumer.
C15_PumpNotBlockedByHandler ==
    /\ [][(ReaderRecv /\ Head(msgCh).type = "control_request")
            => rpc' = "select" /\ hPc'[Head(msgCh).id] = "run"]_vars
    /\ \A k \in 1..MaxFrames : (Len(wire) >= k) ~> (TakenByPump >= k)
    /\ \A n \in 1..MaxFrames : InMsgCh(n) ~> (Len(consumed) >= n)

\* A handler is suspended in its callback while a data frame and a control
\* response that arrived after its request have been dealt with.
C15_Witness ==
    \E h \in InboundIds :
        /\ hPc[h] = "run"
        /\ wire = <<"control_request", "data", "control_response">>
        /\ consumed = <<DataFrame(1)>>
        /\ msgCh = <<>>
        /\ rpc = "select"

\* The frame types of the control protocol.
ControlTypes == {"control_response", "control_request", "control_cancel_request"}

\* Everything that has arrived has been dealt with.
Drained == msgCh = <<>> /\ rpc = "select" /\ messageChan = <<>>

C17_OversizeGivesDecodeError ==
    /\ OverLimit(jsonBuffer) => fErr = "decode"
    /\ fErr = "decode" => fpc = "ended"
    /\ (fpc # "unset" /\ OverLimit(fMsgBytes)) => fErr = "decode"

allButCpc == <<tvars, wvars, rvars, qvars, hvars, cancelled, resultChan, evars, consumed>>

\* C19: once Close has returned, each step of a further call of Close (the
\* cancel function, then the transport's Close) changes nothing of the
\* multiplexer or of the transport.
C19_CloseIdempotent ==
    [][(CloseReturned /\ cpc' # cpc) => UNCHANGED allButCpc]_vars

\* Close has returned, the read goroutine has since recorded the exit status
\* of the child, and a second call of Close is under way.
C19_Witness ==
    /\ CloseReturned
    /\ exitError
    /\ cpc = "transportClose"

\* C20: a control operation of the facade that begins after Disconnect has
\* returned ends at once with the "not connected" error: it registers no
\* pending request and never reaches the transport's Write.
C20_AfterCloseNotConnected ==
    [][\A r \in RequestIds :
          (CloseReturned /\ isStreamingMode /\ reqPc[r] = "idle" /\ reqPc'[r] # "idle")
              => /\ reqPc'[r] = "done"
                 /\ outcome'[r] = <<Result("notConnected", 0)>>
                 /\ pendingControlResponses' = pendingControlResponses]_vars

\* What an operation begun after Disconnect does do: nothing of it reaches
\* the pipe, it never waits for a response, and its one outcome is the
\* transport's "not ready" error.
AfterCloseFailsInWrite ==
    \A r \in RequestIds :
        []((CloseReturned /\ isStreamingMode /\ reqPc[r] = "idle")
            => [](/\ ~Written(r)
                  /\ reqPc[r] # "wait"
                  /\ outcome[r] \in {<<>>, <<Result("notReady", r)>>}))

\* Everything a call on a client without queryHandler could touch of a
\* transport or of the multiplexer.
TransportAndPending == <<tvars, wvars, tConnects, cTransport, pendingControlResponses,
                         requestCounter, resultChan>>

\* A control operation of the client begins and ends in this step.
ControlReturnsAtOnce(r) == reqPc[r] = "idle" /\ reqPc'[r] = "done"

allButDiscRet == <<tvars, wvars, rvars, qvars, hvars, cvars, resultChan, isStreamingMode,
                   ctxDone, fvars, ivars, svars, pvars, mvars, lvars, consumed,
                   entry, connPc, connRet, cCancel, cCtxDone, cTransport, prompt,
                   optCanUseTool, optToolName, effToolName, tConnects, infoRet>>

\* C22: Disconnect on a client on which connect was never called returns nil
\* and changes nothing else: no transport is created, connected or closed,
\* and the client is left as constructed, so that a later connect starts from
\* the state of a fresh client.
C22_DisconnectBeforeConnect ==
    [][(entry = "none" /\ discRet' # discRet)
          => (discRet' = "nil" /\ UNCHANGED allButDiscRet)]_vars

\* Disconnect was called first, and a later ConnectWithPrompt has connected
\* the transport once and returned nil.
C22_Witness ==
    /\ discRet = "nil"
    /\ entry = "client"
    /\ connRet = "nil"
    /\ tConnects = 1
    /\ initResult = "set"

\* Everything put on the channel ReceiveResponse returned, in order.
SentOnResponse == yielded \o respCh

IsPrefix(a, b) == Len(a) <= Len(b) /\ \A i \in 1..Len(a) : a[i] = b[i]

ResultPositions(q) == {i \in 1..Len(q) : IsResultMessage(q[i])}

\* A sequence of messages up to and including its first result message (all
\* of it if it has none).
UpToFirstResult(q) ==
    IF ResultPositions(q) = {}
    THEN q
    ELSE SubSeq(q, 1, CHOOSE i \in ResultPositions(q) : \A j \in ResultPositions(q) : i <= j)

\* C23: what ReceiveResponse yields is, in order, the decoded messages up to
\* and including the first result message and nothing after it; a result
\* message is the last element and the channel is closed once it is sent;
\* and when the channel is closed without the caller having cancelled its
\* context, every decoded message up to the first result has been yielded.
C23_ResponseEndsAtFirstResult ==
    /\ IsPrefix(SentOnResponse, UpToFirstResult(decoded))
    /\ \A i \in ResultPositions(SentOnResponse) : i = Len(SentOnResponse) /\ respClosed
    /\ (respClosed /\ ~uCtxDone) => SentOnResponse = UpToFirstResult(decoded)

\* A message, then a result message, then a further message have arrived and
\* the first two have been yielded to the consumer of the closed channel,
\* while the third has reached the client.
C23_Witness ==
    /\ yielded = <<DataFrame(1), ResultFrame(2)>>
    /\ respClosed
    /\ respCh = <<>>
    /\ ~uCtxDone
    /\ Len(wire) = 3
    /\ Len(decoded) = 3

\* C24: on a multiplexer that is not in streaming mode, every outbound
\* control request returns an error at once, nothing is ever registered in
\* pending and no frame is written; Initialize returns (nil, nil) without
\* sending a request and q.initResult stays unset.
C24_NonStreamingRejects ==
    ~isStreamingMode =>
        /\ pendingControlResponses = {}
        /\ requestCounter = 0
        /\ stdinPipe = {}
        /\ \A r \in RequestIds :
              /\ reqPc[r] \in {"idle", "done"}
              /\ outcome[r] \in {<<>>, <<Result("notStreaming", 0)>>}
              /\ reqPc[r] = "done" <=> outcome[r] # <<>>
        /\ initPc \in {"idle", "done"}
        /\ initPc = "done" <=> initRet = "nil"
        /\ initRet \in {"none", "nil"}
        /\ initResult = "unset"

\* Not in streaming mode, Initialize has returned and two control requests
\* have been rejected.
C24_Witness ==
    /\ ~isStreamingMode
    /\ initPc = "done"
    /\ initRet = "nil"
    /\ \A r \in RequestIds : outcome[r] = <<Result("notStreaming", 0)>>

\* A permission callback is registered together with a prompt that is not
\* streaming (a string) or with a permission_prompt_tool_name of the user.
InvalidPermissionConfig ==
    optCanUseTool /\ (prompt = "string" \/ optToolName # "nil")

\* C25: once connect has been called, by either entry: with an invalid
\* permission configuration it has returned the configuration error without
\* a transport having been created or connected, the multiplexer started or
\* a frame written, and it returns that error in no other case; with a
\* permission callback and a valid configuration the options handed on carry
\* the permission_prompt_tool_name "stdio".
C25_PermissionConfigValidated ==
    connPc # "idle" =>
        /\ InvalidPermissionConfig =>
              /\ connPc = "done"
              /\ connRet = "configError"
              /\ cTransport = "nil"
              /\ tConnects = 0
              /\ rpc = "created"
              /\ stdinPipe = {}
              /\ effToolName = "unset"
        /\ connRet = "configError" => InvalidPermissionConfig
        /\ (optCanUseTool /\ ~InvalidPermissionConfig) => effToolName = "stdio"
        /\ ~optCanUseTool => effToolName = optToolName

\* ConnectWithPrompt with a permission callback and a string prompt has
\* returned the configuration error.
C25_Witness ==
    /\ entry = "client"
    /\ optCanUseTool
    /\ prompt = "string"
    /\ optToolName = "nil"
    /\ connRet = "configError"
    /\ tConnects = 0

\* C26: when the permission callback returns an Ask result, the response has
\* subtype success and its payload has behavior "ask", with the message,
\* updatedInput and updatedPermissions the callback provided.
C26_AskGivesAskPayload ==
    (permPc = "done" /\ permRegistered /\ permResult.kind = "ask") =>
        /\ permSubtype = "success"
        /\ permResponse.behavior = "ask"
        /\ permResult.message # "" => permResponse.message = permResult.message
        /\ permResult.updatedInput # "null" =>
              permResponse.updatedInput = permResult.updatedInput
        /\ permResult.updatedPermissions # "null" =>
              permResponse.updatedPermissions = permResult.updatedPermissions

\* C27: when the permission callback returns Allow, the response has subtype
\* success and its payload has behavior "allow" and an updatedInput key:
\* the callback's updated input if it gave one, otherwise the input of the
\* request as the handler read it.
C27_AllowCarriesUpdatedInput ==
    (permPc = "done" /\ permRegistered /\ permResult.kind = "allow") =>
        /\ permSubtype = "success"
        /\ permResponse.err = "none"
        /\ permResponse.behavior = "allow"
        /\ permResponse.updatedInput # "absent"
        /\ permResponse.updatedInput =
              IF permResult.updatedInput # "null" THEN permResult.updatedInput ELSE permInput

\* The callback allowed the tool without an updated input and the response
\* echoes the input of the request.
C27_Witness ==
    /\ permPc = "done"
    /\ permResult.kind = "allow"
    /\ permResult.updatedInput = "null"
    /\ permInput = "in1"
    /\ permResponse.updatedInput = "in1"

\* A tools/call for a registered tool has been answered.
ToolCallAnswered == mcpPc = "done" /\ CallsHandler(mcpRequest)

\* C28: the reply to a tools/call for a registered tool is a JSON-RPC result,
\* never a JSON-RPC error: when the handler failed, a result with isError
\* true and a text content block that holds the error; when it succeeded,
\* its payload unchanged as the result, a nil payload included.
C28_HandlerFailureIsErrorResult ==
    ToolCallAnswered =>
        /\ mcpResponse.kind = "result"
        /\ mcpResponse.id = mcpRequest.id
        /\ mcpReturn.err # "none" =>
              /\ mcpResponse.isError
              /\ mcpResponse.content = ErrorText(mcpReturn.err)
        /\ mcpReturn.err = "none" =>
              /\ mcpResponse.result = mcpReturn.result
              /\ ~mcpResponse.isError
              /\ mcpResponse.content = <<>>

\* A handler that fails has been called and the reply is an error result.
C28_Witness ==
    /\ ToolCallAnswered
    /\ mcpReturn.err = "intentional error"
    /\ mcpResponse.isError

\* C29 (as stated): for every tool handler, a tools/call made with a
\* cancelled context is answered with an error result.
C29_CancelledGivesErrorResult ==
    (ToolCallAnswered /\ mcpCtxDone) =>
        /\ mcpResponse.kind = "result"
        /\ mcpResponse.isError

\* C29 (amended): a tools/call made with a cancelled context is always
\* answered with a JSON-RPC result; it is an error result exactly when the
\* handler returned an error, which a handler that observes its context
\* does; the payload of a handler that does not look at its context is
\* returned as without cancellation.
C29_CancelledErrorIffHandlerObserves ==
    (ToolCallAnswered /\ mcpCtxDone) =>
        /\ mcpResponse.kind = "result"
        /\ mcpResponse.isError <=> mcpReturn.err # "none"
        /\ mcpHandler.observesCtx =>
              /\ mcpResponse.isError
              /\ mcpResponse.content = ErrorText("context canceled")
        /\ (~mcpHandler.observesCtx /\ mcpHandler.err = "none") =>
              /\ ~mcpResponse.isError
              /\ mcpResponse.result = mcpHandler.result

\* A handler that observes its context was called with a cancelled one and
\* the reply is an error result.
C29_Witness ==
    /\ ToolCallAnswered
    /\ mcpCtxDone
    /\ mcpHandler.observesCtx
    /\ mcpHandler.err = "none"
    /\ mcpResponse.isError

\* The stream has ended cleanly (end of stream, exit status zero), nobody has
\* called Close, and the reader pump has returned and closed the data channel.
ClosedAfterCleanEnd ==
    /\ messageChanClosed
    /\ tpc = "ended"
    /\ ~exitError
    /\ errorChan # "err"
    /\ ~cancelled

\* C30: when the data channel is closed after a clean end of stream, no
\* frame is left in the transport's message channel and every data frame the
\* agent wrote has been handed to the consumer or waits for it in the data
\* channel.
C30_NoFrameLostAtCleanEnd ==
    ClosedAfterCleanEnd =>
        /\ msgCh = <<>>
        /\ Len(Surfaced) = NumOf(wire, "data")

\* C31: an inbound control request that arrives after StreamInput has
\* exhausted its source and called EndInput still has its control_response
\* written to the agent (the transport being neither closed nor the child
\* gone).
C31_ResponseWrittenAfterEndInput ==
    \A h \in InboundIds :
        []((siRet = "nil" /\ hPc[h] = "idle")
            => []((hPc[h] = "done" /\ cmd = "set" /\ ~childGone)
                    => \E f \in stdinPipe : f.type = "control_response" /\ f.id = h))

\* A handler is at the lookup in q.hookCallbacks while Initialize is about
\* to write the map: two goroutines, no lock, no channel between them.
LookupDuringRegistration ==
    /\ hkPc = "register"
    /\ hkLeft > 0
    /\ \E h \in InboundIds : hPc[h] = "run" /\ hSub[h] = "hook_callback"

\* C32: the hook registry is fully populated before the reader pump is
\* started and never written afterwards, so that no hook_callback handler
\* reads it while it is being written; and a callback id, once registered,
\* maps to the same hook for ever.
C32_RegistryReadOnlyAfterStart ==
    /\ [](~LookupDuringRegistration)
    /\ [][hookCallbacks' # hookCallbacks => rpc = "created"]_vars
    /\ [][\A e \in hookCallbacks : e \in hookCallbacks']_vars

\* C33: q.initResult is unset until an initialize request succeeds and is
\* then the payload of that response; it is set once for the life of the
\* handler: a repeated Initialize sends no second initialize request and
\* does not overwrite it.
C33_InitResultSetOnce ==
    /\ []((initResult = "set") <=> (initPayload # 0))
    /\ [](initPayload # 0 => outcome[initPayload] = <<Result("success", initPayload)>>)
    /\ [][initPayload # 0 => initPayload' = initPayload]_vars
    /\ [][(initPc = "call" /\ (initRet # "none" \/ initResult = "set"))
            => stdinPipe' = stdinPipe]_vars

\* C34: Start is legal only on a handler just created: a second Start, or a
\* Start after Close, spawns no further reader pump, so at most one reader
\* pump ever drains the transport for one handler.
C34_AtMostOnePump == PumpsSpawned <= 1

\* C35: a message that arrives after a result message is not lost when the
\* stream of ReceiveResponse ends: over the successive calls the consumer is
\* given every message in its order of arrival, none left out.  (Messages
\* are numbered 1, 2, ... as they arrive.)
C35_NothingLostBetweenResponses ==
    \A i \in 1..Len(yielded) : yielded[i].id = i

\* The reader pump holds a data frame and the data channel is full.
PumpHeldByFullChannel == rpc = "sendData" /\ Len(messageChan) = Capacity

\* C36: the data channel never holds more frames than its capacity, which is
\* the configured buffer size, or 100 when that is zero or negative.  While
\* the channel is full and the context is not cancelled, the reader pump
\* stays where it is with the frame it holds; it leaves that place only by
\* putting the frame on the channel or because the context is cancelled: no
\* frame is dropped because the buffer is full.
C36_FullChannelBlocksPump ==
    /\ [](Len(messageChan) <= Capacity)
    /\ [](Capacity = IF bufferSize <= 0 THEN 100 ELSE bufferSize)
    /\ [][(PumpHeldByFullChannel /\ ~cancelled) => (rpc' = rpc /\ rmsg' = rmsg)]_vars
    /\ [][(rpc = "sendData" /\ rpc' # "sendData")
            => \/ messageChan' = Append(messageChan, rmsg)
               \/ (cancelled /\ messageChan' = messageChan)]_vars

\* With a capacity of one: the first frame has been consumed, the second
\* fills the channel and the pump is held with the third.
C36_Witness ==
    /\ bufferSize = 1
    /\ consumed = <<DataFrame(1)>>
    /\ messageChan = <<DataFrame(2)>>
    /\ rpc = "sendData"
    /\ rmsg = DataFrame(3)

\* C38: whenever Connect returns success IsReady is true, also when it is
\* called again after an earlier call has failed; and IsReady is true only
\* between a successful Connect and Close.
C38_ReadyAfterConnect ==
    /\ [][(tcCalls' # tcCalls /\ tcRet' = "nil") => IsReady']_vars
    /\ [](IsReady => tcPhase = "connected")

\* C37: after Close or cancellation both the read goroutine of the transport
\* and the reader pump terminate (neither stays blocked on a full message
\* channel), and the read goroutine does not fault on the t.cmd that Close
\* has cleared.
C37_BothReadersTerminate ==
    /\ [](tpc # "fault")
    /\ (CloseReturned \/ cCtxDone) ~> (tpc = "ended" /\ rpc = "done")

\* C39: every transport, framing or decode error that ends a receive stream
\* is surfaced to the facade's consumer: when the stream Query returned has
\* closed after ReceiveMessages returned on an error of the multiplexer's
\* error channel or on a message that does not parse, the error channel
\* Query returned holds an error.
StreamEndedByError == wPc = "done" /\ mEnd \in {"error", "parse"}
C39_ErrorSurfaced == StreamEndedByError => wrapErr # "empty"

\* The pump takes a control_cancel_request frame from the transport.
CancelTaken ==
    /\ rpc = "select"
    /\ msgCh # <<>>
    /\ Head(msgCh).type = "control_cancel_request"
    /\ msgCh' = Tail(msgCh)

\* C40: an inbound control_cancel_request frame is accepted silently: the
\* step of the pump that takes it puts nothing on the data channel, holds
\* nothing for it, writes nothing to the agent, resolves no caller, starts
\* no handler and leaves the pending map as it is, and the pump is back at
\* its select for the next frame.
C40_CancelAcceptedSilently ==
    [][CancelTaken =>
        /\ messageChan' = messageChan
        /\ rmsg' = rmsg
        /\ stdinPipe' = stdinPipe
        /\ pendingControlResponses' = pendingControlResponses
        /\ resultChan' = resultChan
        /\ hPc' = hPc
        /\ consumed' = consumed
        /\ rpc' = "select"]_vars

\* A control_cancel_request arrived first and a data frame after it: the
\* cancel frame is gone without a trace and the consumer has the data frame.
C40_Witness ==
    /\ wire = <<"control_cancel_request", "data">>
    /\ msgCh = <<>>
    /\ rpc = "select"
    /\ Len(consumed) = 1
    /\ consumed[1].type # "control_cancel_request"
    /\ stdinPipe = {}

====
